---- MODULE Spec2Model ----
(***************************************************************************)
(* The declarative test registration layer of Decorators.ts: the           *)
(* registration decorators (testDecorator, conditionalTest, testMethod,    *)
(* testWithData, Test), the runner that later executes the registered      *)
(* cases, the retry wrapper, and the wrappers around one call of a method  *)
(* (step, boxedStep, timeout, performance, screenshot, waitFor, log), each *)
(* call leaving a log of what it did to the reporter, the page and the     *)
(* console.                                                                *)
(*                                                                         *)
(* JavaScript values are represented as follows.                           *)
(*   - an optional value (a property that may be undefined) is a sequence  *)
(*     of length 0 (Undefined) or 1 (Some(v));                             *)
(*   - a string is a TLA+ string; Len, \o, SubSeq and Tail act on it as    *)
(*     length, concatenation, substring and slice(1);                      *)
(*   - a data item is a record [k, s, n]: the string s, the number n, the  *)
(*     object {a: n}, undefined or a function, by its kind k.              *)
(***************************************************************************)
EXTENDS Integers, Sequences, FiniteSets, TLC

VARIABLES
    nodeEnv,        \* process.env.NODE_ENV, optional string
    pending,        \* the decorated method of the class body being evaluated
    loaded,         \* "no" before the decorator ran, then "ok" or "threw"
    registered,     \* the cases handed to the runner by test(...) / test.skip(...)
    invocations,    \* per registered case, the calls its body made of the method
    factoryCalls,   \* number of calls of the data factory
    skipEvals,      \* arguments of the calls of the skip predicate, in order
    report,         \* per registered case, what the runner did with it
    attempts,       \* retry: the configured attempt count (optional)
    delay,          \* retry: the configured delay in ms (optional)
    failures,       \* retry: how many first invocations of the method fail (-1: all)
    attempt,        \* retry: the loop variable
    pc,             \* retry: position of the replacement method
    targetCalls,    \* retry: number of invocations of the method so far
    delays,         \* retry: the delays waited so far, in order
    lastError,      \* retry: the error caught last (optional message)
    outcome,        \* retry: how the step settled
    wrapper,        \* wrappers: the decorator applied to the method, with its options
    target,         \* wrappers: how the wrapped method behaves in this call
    wpc,            \* wrappers: position of the replacement method
    caught,         \* wrappers: the error bound by the catch clause (optional)
    events,         \* wrappers: what the call did to the reporter, page and console
    completion,     \* wrappers: how the replacement method settled
    itemIndex,      \* dataProvider: the loop variable, counted from 1
    results         \* dataProvider: the results collected so far

regVars == <<nodeEnv, pending, loaded, registered, invocations, factoryCalls, skipEvals, report>>
retryVars == <<attempts, delay, failures, attempt, pc, targetCalls, delays, lastError, outcome>>
wrapVars == <<wrapper, target, wpc, caught, events, completion>>
loopVars == <<itemIndex, results>>
vars == <<nodeEnv, pending, loaded, registered, invocations, factoryCalls, skipEvals, report,
          attempts, delay, failures, attempt, pc, targetCalls, delays, lastError, outcome,
          wrapper, target, wpc, caught, events, completion, itemIndex, results>>

-----------------------------------------------------------------------------
(* Bounds of the model *)

MaxData == 2
MaxAttempts == 4
MaxFailures == 3

-----------------------------------------------------------------------------
(* JavaScript values *)

Undefined == <<>>
Some(v) == <<v>>

\* truthiness of an optional string: undefined and '' are falsy
TruthyStr(o) == o # Undefined /\ o[1] # ""
\* truthiness of an optional number: undefined and 0 are falsy
TruthyNum(o) == o # Undefined /\ o[1] # 0

Str(s) == [k |-> "string", s |-> s, n |-> 0]
Num(n) == [k |-> "number", s |-> "", n |-> n]
Obj(n) == [k |-> "object", s |-> "", n |-> n]
Undef == [k |-> "undefined", s |-> "", n |-> 0]
Fn == [k |-> "function", s |-> "", n |-> 0]

RECURSIVE Repeat(_, _)
Repeat(c, n) == IF n <= 0 THEN "" ELSE c \o Repeat(c, n - 1)

\* The letters outside a-z that String.prototype.toUpperCase maps to one other
\* character, and that character at the same position of UpperCaseLetters.
\* The tables hold the letters of the Basic Multilingual Plane that a string
\* of this module can hold, both forms of them.
LowerCaseLetters ==
    "µàáâãäåæçèéêëìíîïðñòóôõöøùúûüýþƃƅƈƌƒƕƙơƣ"
    \o "ƥƨƭưƴƶƹƽƿǅǆǈǉǋǌǎǐǒǔǖǘǚǜǝǟǡǣǥǧǩǫǭǯǲǳǵǹǻǽǿ"
    \o "ʀʂʃʇʈʊʋʒʝʞάέήίαβγδεζηθικλμνξοπρςστυφχψωϊ"
    \o "ϋόύώϐϑϕϖϗϙϛϝϟϡϣϥϧϩϫϭϯϰϱϲϵϸϻҁҋҍҏґғҕҗҙқҝҟҡ"
    \o "ңҥҧҩҫҭүұҳҵҷҹһҽҿӂӄӆӈӊӌӎӏӑӓӕӗәӛӝӟӡӣӥӧөӫӭӯӱ"
    \o "ӳӵӷӹӻӽӿაბგდევზთიკლმნოპჟრსტუფქღყშჩცძწჭხჯჰ"
    \o "ჱჲჳჴჵჶჷჸჹჺჽჾჿᏸᏹᏺᏻᏼᏽᶎẁẃẅẇẉẋẍẏẑẓẕạảấầẩẫậắằ"
    \o "ẳẵặẹẻẽếềểễệỉịọỏốồổỗộớờởỡợụủứừửữựỳỵỷỹỻỽỿᾰ"
    \o "ᾱιῐῑῠῡῥↄⓐⓑⓒⓓⓔⓕⓖⓗⓘⓙⓚⓛⓜⓝⓞⓟⓠⓡⓢⓣⓤⓥⓦⓧⓨⓩⲁⲃⲅⲇⲉⲋ"
    \o "ⲍⲏⲑⲓⲕⲗⲙⲛⲝⲟⲡⲣⲥⲧⲩⲫⲭⲯⲱⲳⲵⲷⲹⲻⲽⲿⳁⳃⳅⳇⳉⳋⳍⳏⳑⳓⳕⳗⳙⳛ"
    \o "ⳝⳟⳡⳣⳬⳮⳳꚁꚃꚅꚇꚉꚋꚍꚏꚑꚓꚕꚗꚙꚛꞁꞃꞅꞇꞌꞑꞓꞔꞗꞙꞛꞝꞟꞡꞣꞥꞧꞩꞵ"
    \o "ꞷꞹꞻꞽꞿꟁꟃꟈꟊꟑꟗꟙꟶꮀꮁꮂꮃꮄꮅꮆꮇꮈꮉꮊꮋꮌꮍꮎꮏꮐꮑꮒꮓꮔꮕꮖꮗꮘꮙꮚ"
    \o "ꮛꮜꮝꮞꮟꮠꮡꮢꮣꮤꮥꮦꮧꮨꮩꮪꮫꮬꮭꮮꮯꮰꮱꮲꮳꮴꮵꮶꮷꮸꮹꮺꮻꮼꮽꮾꮿ"
    \o "ƛᲊꟍ꟏ꟓꟕꟛ"

UpperCaseLetters ==
    "ΜÀÁÂÃÄÅÆÇÈÉÊËÌÍÎÏÐÑÒÓÔÕÖØÙÚÛÜÝÞƂƄƇƋƑǶƘƠƢ"
    \o "ƤƧƬƯƳƵƸƼǷǄǄǇǇǊǊǍǏǑǓǕǗǙǛƎǞǠǢǤǦǨǪǬǮǱǱǴǸǺǼǾ"
    \o "ƦꟅƩꞱƮƱƲƷꞲꞰΆΈΉΊΑΒΓΔΕΖΗΘΙΚΛΜΝΞΟΠΡΣΣΤΥΦΧΨΩΪ"
    \o "ΫΌΎΏΒΘΦΠϏϘϚϜϞϠϢϤϦϨϪϬϮΚΡϹΕϷϺҀҊҌҎҐҒҔҖҘҚҜҞҠ"
    \o "ҢҤҦҨҪҬҮҰҲҴҶҸҺҼҾӁӃӅӇӉӋӍӀӐӒӔӖӘӚӜӞӠӢӤӦӨӪӬӮӰ"
    \o "ӲӴӶӸӺӼӾᲐᲑᲒᲓᲔᲕᲖᲗᲘᲙᲚᲛᲜᲝᲞᲟᲠᲡᲢᲣᲤᲥᲦᲧᲨᲩᲪᲫᲬᲭᲮᲯᲰ"
    \o "ᲱᲲᲳᲴᲵᲶᲷᲸᲹᲺᲽᲾᲿᏰᏱᏲᏳᏴᏵꟆẀẂẄẆẈẊẌẎẐẒẔẠẢẤẦẨẪẬẮẰ"
    \o "ẲẴẶẸẺẼẾỀỂỄỆỈỊỌỎỐỒỔỖỘỚỜỞỠỢỤỦỨỪỬỮỰỲỴỶỸỺỼỾᾸ"
    \o "ᾹΙῘῙῨῩῬↃⒶⒷⒸⒹⒺⒻⒼⒽⒾⒿⓀⓁⓂⓃⓄⓅⓆⓇⓈⓉⓊⓋⓌⓍⓎⓏⲀⲂⲄⲆⲈⲊ"
    \o "ⲌⲎⲐⲒⲔⲖⲘⲚⲜⲞⲠⲢⲤⲦⲨⲪⲬⲮⲰⲲⲴⲶⲸⲺⲼⲾⳀⳂⳄⳆⳈⳊⳌⳎⳐⳒⳔⳖⳘⳚ"
    \o "ⳜⳞⳠⳢⳫⳭⳲꚀꚂꚄꚆꚈꚊꚌꚎꚐꚒꚔꚖꚘꚚꞀꞂꞄꞆꞋꞐꞒꟄꞖꞘꞚꞜꞞꞠꞢꞤꞦꞨꞴ"
    \o "ꞶꞸꞺꞼꞾꟀꟂꟇꟉꟐꟖꟘꟵᎰᎱᎲᎳᎴᎵᎶᎷᎸᎹᎺᎻᎼᎽᎾᎿᏀᏁᏂᏃᏄᏅᏆᏇᏈᏉᏊ"
    \o "ᏋᏌᏍᏎᏏᏐᏑᏒᏓᏔᏕᏖᏗᏘᏙᏚᏛᏜᏝᏞᏟᏠᏡᏢᏣᏤᏥᏦᏧᏨᏩᏪᏫᏬᏭᏮᏯ"
    \o "ꟜᲉꟌ꟎꟒꟔Ꟛ"

\* The letters String.prototype.toUpperCase maps to a character that no string
\* of this module can hold (the small y with diaeresis, whose capital is
\* U+0178, is the first): UpperChar has no value for them, and no environment
\* name or log level of the model contains one.
UnwritableUpperCase ==
    "ÿƀƚƞǰʉʌΐΰϳրցւփքօֆևᲀᲁᲂᲃᲄᲅᲆᲇᲈẖẗẘẙẛᾀᾁᾂᾃᾄᾅᾆᾇ"
    \o "ᾈᾉᾊᾋᾌᾍᾎᾏᾐᾑᾒᾓᾔᾕᾖᾗᾘᾙᾚᾛᾜᾝᾞᾟᾠᾡᾢᾣᾤᾥᾦᾧᾨᾩᾪᾫᾬᾭᾮᾯ"
    \o "ᾶᾷῆῇῒΐῖῗῢΰῤῦῧῶῷ"

\* the upper-case form of one character (Unicode SpecialCasing: a character may
\* become two, as the sharp s does); every character that is not a lower-case
\* letter is its own upper-case form
UpperChar(c) ==
    CASE c = "a" -> "A" [] c = "b" -> "B" [] c = "c" -> "C" [] c = "d" -> "D"
      [] c = "e" -> "E" [] c = "f" -> "F" [] c = "g" -> "G" [] c = "h" -> "H"
      [] c = "i" -> "I" [] c = "j" -> "J" [] c = "k" -> "K" [] c = "l" -> "L"
      [] c = "m" -> "M" [] c = "n" -> "N" [] c = "o" -> "O" [] c = "p" -> "P"
      [] c = "q" -> "Q" [] c = "r" -> "R" [] c = "s" -> "S" [] c = "t" -> "T"
      [] c = "u" -> "U" [] c = "v" -> "V" [] c = "w" -> "W" [] c = "x" -> "X"
      [] c = "y" -> "Y" [] c = "z" -> "Z"
      [] c = "ß" -> "SS" [] c = "ẚ" -> "Aʾ" [] c = "ᾲ" -> "ᾺΙ" [] c = "ᾳ" -> "ΑΙ"
      [] c = "ᾴ" -> "ΆΙ" [] c = "ᾼ" -> "ΑΙ" [] c = "ῂ" -> "ῊΙ" [] c = "ῃ" -> "ΗΙ"
      [] c = "ῄ" -> "ΉΙ" [] c = "ῌ" -> "ΗΙ" [] c = "ῲ" -> "ῺΙ" [] c = "ῳ" -> "ΩΙ"
      [] c = "ῴ" -> "ΏΙ" [] c = "ῼ" -> "ΩΙ"
      [] \E i \in 1..Len(LowerCaseLetters) : SubSeq(LowerCaseLetters, i, i) = c ->
            LET i == CHOOSE j \in 1..Len(LowerCaseLetters) :
                         SubSeq(LowerCaseLetters, j, j) = c
            IN  SubSeq(UpperCaseLetters, i, i)
      [] \A i \in 1..Len(UnwritableUpperCase) : SubSeq(UnwritableUpperCase, i, i) # c -> c

\* String.prototype.toUpperCase
RECURSIVE toUpperCase(_)
toUpperCase(s) ==
    IF Len(s) = 0 THEN "" ELSE UpperChar(SubSeq(s, 1, 1)) \o toUpperCase(Tail(s))

\* Array.prototype.join
RECURSIVE join(_, _)
join(arr, sep) ==
    IF Len(arr) = 0 THEN ""
    ELSE IF Len(arr) = 1 THEN arr[1]
    ELSE arr[1] \o sep \o join(Tail(arr), sep)

\* the characters U+0001 to U+001F, each at the position of its code
\* (U+0000 is a character no string of the module can hold)
ControlChars == "\t\n\f\r"

\* the characters JSON.stringify does not copy as they are: the quote, the
\* backslash and every character below U+0020
EscapedChars == {"\"", "\\"} \cup {SubSeq(ControlChars, n, n) : n \in 1..Len(ControlChars)}

\* the four lower-case hexadecimal digits of a code below 256
Hex4(n) ==
    LET digits == "0123456789abcdef"
    IN  "00" \o SubSeq(digits, (n \div 16) + 1, (n \div 16) + 1)
             \o SubSeq(digits, (n % 16) + 1, (n % 16) + 1)

\* the JSON escape of one character of a string (QuoteJSONString): the quote,
\* the backslash and the backspace, tab, line feed, form feed and carriage
\* return have a short escape, every other character below U+0020 is written
\* \uXXXX, and every other character stands for itself
EscapeChar(c) ==
    IF c \notin EscapedChars THEN c
    ELSE CASE c = "\"" -> "\\\""
           [] c = "\\" -> "\\\\"
           [] c = "\n" -> "\\n"
           [] c = "\t" -> "\\t"
           [] c = "\r" -> "\\r"
           [] c = "\f" -> "\\f"
           [] c = SubSeq(ControlChars, 8, 8) -> "\\b"
           [] OTHER ->
                LET n == CHOOSE m \in 1..Len(ControlChars) :
                             SubSeq(ControlChars, m, m) = c
                IN  "\\u" \o Hex4(n)

RECURSIVE Quote(_)
Quote(s) ==
    IF \A i \in 1..Len(s) : SubSeq(s, i, i) \notin EscapedChars THEN s
    ELSE EscapeChar(SubSeq(s, 1, 1)) \o Quote(Tail(s))

\* JSON.stringify of a data item: an optional string, undefined for a value
\* that has no JSON rendering
JSONstringify(d) ==
    CASE d.k = "string" -> Some("\"" \o Quote(d.s) \o "\"")
      [] d.k = "number" -> Some(ToString(d.n))
      [] d.k = "object" -> Some("{\"a\":" \o ToString(d.n) \o "}")
      [] OTHER -> Undefined

\* process.env.NODE_ENV || 'development'
EnvOf(e) == IF TruthyStr(e) THEN e[1] ELSE "development"

-----------------------------------------------------------------------------
(* Registered cases *)

NoOptions == [timeout |-> Undefined, annotation |-> Undefined]

\* a body that forgets the data item: target(fixtures)
ActiveCase_DropsData(title, data, options) ==
    [title |-> title, skipped |-> FALSE, options |-> options,
     callsTarget |-> TRUE, data |-> Undefined]

\* test(title, async (fixtures) => target(fixtures[, data]), options)
ActiveCase(title, data, options) ==
    [title |-> title, skipped |-> FALSE, options |-> options,
     callsTarget |-> TRUE, data |-> data]

\* test.skip(title, () => { console.log(...) })
SkippedCase(title) ==
    [title |-> title, skipped |-> TRUE, options |-> NoOptions,
     callsTarget |-> FALSE, data |-> Undefined]

\* a skip predicate applied to its (optional) argument: the predicate is
\* represented by the set `on` of the kinds of argument it returns true for
ApplyPredicate(p, arg) ==
    (IF arg = Undefined THEN "undefined" ELSE arg[1].k) \in p.on

\* the predicate is user code: applied to an argument of a kind in `throwsOn`
\* it throws instead of returning
PredicateThrows(p, arg) ==
    (IF arg = Undefined THEN "undefined" ELSE arg[1].k) \in p.throwsOn

NoResult == [cases |-> <<>>, threw |-> FALSE, factoryCalls |-> 0, skipEvals |-> <<>>]

\* the data resolved anew wherever it is used: once for forEach and once more
\* for the `.length` in the title of each element
ResolvedDataCalls_PerUse(testData) ==
    IF testData.k = "function" THEN 1 + Len(testData.items) ELSE 0

\* const resolvedData = typeof testData === 'function' ? testData() : testData:
\* the calls of the factory this statement makes
ResolvedDataCalls(testData) ==
    IF testData.k = "function" THEN 1 ELSE 0

-----------------------------------------------------------------------------
(* Test *)

TestTitleCap == 40
TestTitleKeep == 37
WithDataTitleCap == 50
WithDataTitleKeep == 47

SkipUndefined == [k |-> "undefined", b |-> FALSE, on |-> {}, throwsOn |-> {}]
SkipBoolean(b) == [k |-> "boolean", b |-> b, on |-> {}, throwsOn |-> {}]
SkipFunction(on) == [k |-> "function", b |-> FALSE, on |-> on, throwsOn |-> {}]
\* a skip function that throws for the arguments of the kinds in throwsOn
SkipFunctionThrowing(on, throwsOn) ==
    [k |-> "function", b |-> FALSE, on |-> on, throwsOn |-> throwsOn]

DataUndefined == [k |-> "undefined", items |-> <<>>]
DataArray(items) == [k |-> "array", items |-> items]
DataFactory(items) == [k |-> "function", items |-> items]

\* the configuration Test('...') is given as a bare string
StringConfig(s) == [isString |-> TRUE, str |-> s]

\* const title = isStringConfig ? config : (config.title || methodName)
TestTitle(config, methodName) ==
    IF config.isString THEN config.str
    ELSE IF TruthyStr(config.title) THEN config.title[1] ELSE methodName

\* const idPrefix = testCaseId ? `[${testCaseId}] ` : ''
IdPrefix(testCaseId) ==
    IF TruthyStr(testCaseId) THEN "[" \o testCaseId[1] \o "] " ELSE ""

\* the tag list rendered without the test of its length
TagString_NoLengthTest(tags) ==
    IF tags # Undefined THEN " [" \o join(tags[1], ", ") \o "]" ELSE ""

\* const tagString = tags?.length ? ` [${tags.join(', ')}]` : ''
TagString(tags) ==
    IF tags # Undefined /\ Len(tags[1]) # 0
    THEN " [" \o join(tags[1], ", ") \o "]" ELSE ""

\* const baseTitle = `${env.toUpperCase()}: ${idPrefix}${title}`
BaseTitle(env, testCaseId, title) ==
    toUpperCase(env) \o ": " \o IdPrefix(testCaseId) \o title

\* testOptions: timeout and annotation are set only when truthy; retries is
\* never copied
TestOptions(timeout, description) ==
    [timeout |-> IF TruthyNum(timeout) THEN timeout ELSE Undefined,
     annotation |-> IF TruthyStr(description) THEN description ELSE Undefined]

\* shouldSkip calling the predicate without the data item
shouldSkip_IgnoresData(skipConfig, data) ==
    IF skipConfig.k = "undefined" THEN FALSE
    ELSE IF skipConfig.k = "boolean" THEN skipConfig.b
    ELSE ApplyPredicate(skipConfig, Undefined)

\* const shouldSkip = (data?) => ...
shouldSkip(skipConfig, data) ==
    IF skipConfig.k = "undefined" THEN FALSE
    ELSE IF skipConfig.k = "boolean" THEN skipConfig.b
    ELSE ApplyPredicate(skipConfig, data)

\* shouldSkip(data) throws when the skip function it calls throws
ShouldSkipThrows(skipConfig, data) ==
    skipConfig.k = "function" /\ PredicateThrows(skipConfig, data)

\* the calls of the skip function one call of shouldSkip makes
ShouldSkipEvals(skipConfig, data) ==
    IF skipConfig.k = "function" THEN <<data>> ELSE <<>>

\* the truncation keeping cap characters before the ellipsis
TestShortDataStr_KeepsCap(dataStr) ==
    IF Len(dataStr) > TestTitleCap
    THEN SubSeq(dataStr, 1, TestTitleCap) \o "..." ELSE dataStr

\* dataStr.length > 40 ? `${dataStr.substring(0, 37)}...` : dataStr
TestShortDataStr(dataStr) ==
    IF Len(dataStr) > TestTitleCap
    THEN SubSeq(dataStr, 1, TestTitleKeep) \o "..." ELSE dataStr

\* `${baseTitle} (${index + 1}/${resolvedData.length}): ${shortDataStr}${tagString}`
\* with index counted from 1 here
TestDataTitle(baseTitle, index, n, shortDataStr, tagString) ==
    baseTitle \o " (" \o ToString(index) \o "/" \o ToString(n) \o "): "
        \o shortDataStr \o tagString

\* resolvedData.forEach((data, index) => ...) from element `index` on: the
\* cases registered, and whether an element made the callback throw (reading
\* .length of the undefined dataStr), which ends the loop
RECURSIVE TestForEach(_, _, _, _, _, _)
TestForEach(resolvedData, index, baseTitle, tagString, skipConfig, testOptions) ==
    IF index > Len(resolvedData) THEN NoResult
    ELSE LET data == resolvedData[index]
             dataStr == JSONstringify(data)
         IN  IF dataStr = Undefined
             THEN [NoResult EXCEPT !.threw = TRUE]
             ELSE IF ShouldSkipThrows(skipConfig, Some(data))
             THEN [NoResult EXCEPT !.threw = TRUE,
                                   !.skipEvals = ShouldSkipEvals(skipConfig, Some(data))]
             ELSE LET fullTitle == TestDataTitle(baseTitle, index, Len(resolvedData),
                                                 TestShortDataStr(dataStr[1]), tagString)
                      case == IF shouldSkip(skipConfig, Some(data))
                              THEN SkippedCase(fullTitle)
                              ELSE ActiveCase(fullTitle, Some(data), testOptions)
                      rest == TestForEach(resolvedData, index + 1, baseTitle,
                                          tagString, skipConfig, testOptions)
                  IN  [cases |-> <<case>> \o rest.cases,
                       threw |-> rest.threw,
                       factoryCalls |-> 0,
                       skipEvals |-> ShouldSkipEvals(skipConfig, Some(data))
                                        \o rest.skipEvals]

\* the test of the data also taking an empty array for no data
TestHasNoData_EmptyArray(testData) ==
    testData.k = "undefined" \/ (testData.k = "array" /\ Len(testData.items) = 0)

\* if (!testData): an array, even an empty one, and a function are truthy
TestHasNoData(testData) == testData.k = "undefined"

\* the decorator Test(config) applied to the method named methodName
Test(config, methodName, nodeEnvNow) ==
    LET env == EnvOf(nodeEnvNow)
        title == TestTitle(config, methodName)
        description == IF config.isString THEN Undefined ELSE config.description
        testCaseId == IF config.isString THEN Undefined ELSE config.testCaseId
        tags == IF config.isString THEN Undefined ELSE config.tags
        testData == IF config.isString THEN DataUndefined ELSE config.data
        skipConfig == IF config.isString THEN SkipUndefined ELSE config.skip
        timeout == IF config.isString THEN Undefined ELSE config.timeout
        tagString == TagString(tags)
        baseTitle == BaseTitle(env, testCaseId, title)
        testOptions == TestOptions(timeout, description)
    IN  IF TestHasNoData(testData)
        THEN LET fullTitle == baseTitle \o tagString
             IN  [cases |-> IF ShouldSkipThrows(skipConfig, Undefined) THEN <<>>
                            ELSE IF shouldSkip(skipConfig, Undefined)
                            THEN <<SkippedCase(fullTitle)>>
                            ELSE <<ActiveCase(fullTitle, Undefined, testOptions)>>,
                  threw |-> ShouldSkipThrows(skipConfig, Undefined),
                  factoryCalls |-> 0,
                  skipEvals |-> ShouldSkipEvals(skipConfig, Undefined)]
        ELSE [TestForEach(testData.items, 1, baseTitle, tagString, skipConfig, testOptions)
                EXCEPT !.factoryCalls = ResolvedDataCalls(testData)]

-----------------------------------------------------------------------------
(* testDecorator, conditionalTest, testMethod, testWithData *)

\* title ? `${ENV}: ${methodName} - ${title}` : `${ENV}: ${methodName}`
MethodTitle(env, methodName, title) ==
    IF TruthyStr(title)
    THEN toUpperCase(env) \o ": " \o methodName \o " - " \o title[1]
    ELSE toUpperCase(env) \o ": " \o methodName

testDecorator(config, methodName, nodeEnvNow) ==
    [NoResult EXCEPT !.cases =
        <<ActiveCase(MethodTitle(EnvOf(nodeEnvNow), methodName, config.title),
                     Undefined, NoOptions)>>]

\* config.conditionalSkip && config.conditionalSkip()
ConditionalSkip(conditionalSkip, data) ==
    conditionalSkip # Undefined /\ ApplyPredicate(conditionalSkip[1], data)

\* the call of config.conditionalSkip throws
ConditionalSkipThrows(conditionalSkip, data) ==
    conditionalSkip # Undefined /\ PredicateThrows(conditionalSkip[1], data)

ConditionalSkipEvals(conditionalSkip, data) ==
    IF conditionalSkip # Undefined THEN <<data>> ELSE <<>>

\* conditionalTest returning early, without test.skip, when the condition holds
conditionalTest_DropsSkipped(config, methodName, nodeEnvNow) ==
    LET testTitle == MethodTitle(EnvOf(nodeEnvNow), methodName, config.title)
        fullTitle == testTitle \o TagString(config.tags)
    IN  [cases |-> IF ConditionalSkip(config.conditionalSkip, Undefined)
                   THEN <<>>
                   ELSE <<ActiveCase(fullTitle, Undefined, NoOptions)>>,
         threw |-> FALSE,
         factoryCalls |-> 0,
         skipEvals |-> ConditionalSkipEvals(config.conditionalSkip, Undefined)]

conditionalTest(config, methodName, nodeEnvNow) ==
    LET testTitle == MethodTitle(EnvOf(nodeEnvNow), methodName, config.title)
        fullTitle == testTitle \o TagString(config.tags)
    IN  [cases |-> IF ConditionalSkipThrows(config.conditionalSkip, Undefined) THEN <<>>
                   ELSE IF ConditionalSkip(config.conditionalSkip, Undefined)
                   THEN <<SkippedCase(fullTitle)>>
                   ELSE <<ActiveCase(fullTitle, Undefined, NoOptions)>>,
         threw |-> ConditionalSkipThrows(config.conditionalSkip, Undefined),
         factoryCalls |-> 0,
         skipEvals |-> ConditionalSkipEvals(config.conditionalSkip, Undefined)]

\* `${env.toUpperCase()}: ${title || methodName}`
testMethod(config, methodName, nodeEnvNow) ==
    [NoResult EXCEPT !.cases =
        <<ActiveCase(toUpperCase(EnvOf(nodeEnvNow)) \o ": "
                        \o (IF TruthyStr(config.title) THEN config.title[1] ELSE methodName),
                     Undefined, NoOptions)>>]

\* dataStr.length > 50 ? `${dataStr.substring(0, 47)}...` : dataStr
WithDataShortDataStr(dataStr) ==
    IF Len(dataStr) > WithDataTitleCap
    THEN SubSeq(dataStr, 1, WithDataTitleKeep) \o "..." ELSE dataStr

\* `${ENV}: ${baseTitle} (${index + 1}/${resolvedData.length}): ${shortDataStr}${tagString}`
WithDataTitle(env, baseTitle, index, n, shortDataStr, tagString) ==
    toUpperCase(env) \o ": " \o baseTitle \o " (" \o ToString(index) \o "/"
        \o ToString(n) \o "): " \o shortDataStr \o tagString

RECURSIVE testWithDataForEach(_, _, _, _, _)
testWithDataForEach(resolvedData, index, env, options, methodName) ==
    IF index > Len(resolvedData) THEN NoResult
    ELSE LET data == resolvedData[index]
             baseTitle == IF TruthyStr(options.title) THEN options.title[1] ELSE methodName
             tagString == TagString(options.tags)
             dataStr == JSONstringify(data)
         IN  IF dataStr = Undefined
             THEN [NoResult EXCEPT !.threw = TRUE]
             ELSE IF ConditionalSkipThrows(options.conditionalSkip, Some(data))
             THEN [NoResult EXCEPT !.threw = TRUE,
                                   !.skipEvals = ConditionalSkipEvals(options.conditionalSkip,
                                                                      Some(data))]
             ELSE LET testTitle == WithDataTitle(env, baseTitle, index, Len(resolvedData),
                                                 WithDataShortDataStr(dataStr[1]), tagString)
                      case == IF ConditionalSkip(options.conditionalSkip, Some(data))
                              THEN SkippedCase(testTitle)
                              ELSE ActiveCase(testTitle, Some(data), NoOptions)
                      rest == testWithDataForEach(resolvedData, index + 1, env,
                                                  options, methodName)
                  IN  [cases |-> <<case>> \o rest.cases,
                       threw |-> rest.threw,
                       factoryCalls |-> 0,
                       skipEvals |-> ConditionalSkipEvals(options.conditionalSkip, Some(data))
                                        \o rest.skipEvals]

\* the decorator testWithData(testData, options); config holds both arguments
testWithData(config, methodName, nodeEnvNow) ==
    [testWithDataForEach(config.data.items, 1, EnvOf(nodeEnvNow), config, methodName)
        EXCEPT !.factoryCalls = ResolvedDataCalls(config.data)]


-----------------------------------------------------------------------------
(* What the reporter and the console see of a call *)

MethodName == "testLogin"
ClassName == "LoginPage"

\* the arguments the replacement method is called with
CallArgs == <<"user">>

\* the error thrown by the wrapped method when it fails
TargetError == "e"

\* truthiness of an optional boolean: undefined and false are falsy
TruthyBool(o) == o # Undefined /\ o[1]

\* `${this.constructor.name}.${context.name as string}`
QualifiedName == ClassName \o "." \o MethodName

\* description ? `${name} - ${description}` : name
StepName(description) ==
    IF TruthyStr(description) THEN QualifiedName \o " - " \o description[1]
    ELSE QualifiedName

\* the events a call leaves behind, in order
StepBegin(title, options) == [e |-> "step.begin", title |-> title, options |-> options]
StepEnd(o) == [e |-> "step.end", failed |-> (o.k = "threw")]
TargetCall == [e |-> "target.call", args |-> CallArgs]
TargetSettled(threw) == [e |-> "target.settled", threw |-> threw]
Capture(path) == [e |-> "page.screenshot", path |-> path, fullPage |-> TRUE]
WaitElement(selector, state, ms) ==
    [e |-> "locator.waitFor", selector |-> selector, state |-> state, timeout |-> ms]
WaitURL(url, ms) == [e |-> "page.waitForURL", url |-> url, timeout |-> ms]
PageSettled(ok) == [e |-> "page.settled", ok |-> ok]
Console(method, text, rest) ==
    [e |-> "console", method |-> method, text |-> text, rest |-> rest]

Returned(v) == [k |-> "returned", value |-> v]
Threw(err) == [k |-> "threw", value |-> Some(err)]
Pending == [k |-> "pending", value |-> Undefined]

\* how the awaited target.call(this, ...args) settles
TargetOutcome(t) == IF t.throws THEN Threw(TargetError) ELSE Returned(t.result)

-----------------------------------------------------------------------------
(* The runner: class evaluation applies the decorator, then cases execute *)

Fixtures == {"f1", "f2"}

\* bodies sharing one variable for the data item, which holds the last element
\* once the loop is over
BodyCalls_SharedLast(case, f) ==
    IF case.callsTarget
    THEN <<[fixtures |-> f, data |-> registered[Len(registered)].data]>> ELSE <<>>

\* the body the case was registered with, executed with the fixture bag f
BodyCalls(case, f) ==
    IF case.callsTarget THEN <<[fixtures |-> f, data |-> case.data]>> ELSE <<>>

\* what the runner holds for a case it has not got to yet
NotRun == [status |-> "none", fixtures |-> ""]

\* registration made atomic: a decorator that throws leaves no case behind
Collected_Atomic(r) ==
    /\ registered' = registered \o (IF r.threw THEN <<>> ELSE r.cases)
    /\ invocations' = invocations \o [i \in 1..Len(registered') - Len(registered) |-> <<>>]
    /\ report' = report \o [i \in 1..Len(registered') - Len(registered) |-> NotRun]
    /\ loaded' = IF r.threw THEN "threw" ELSE "ok"
    /\ factoryCalls' = factoryCalls + r.factoryCalls
    /\ skipEvals' = skipEvals \o r.skipEvals
    /\ UNCHANGED <<nodeEnv, pending>>

\* the runner's state after the decorator returned (or threw) result r
Collected(r) ==
    /\ registered' = registered \o r.cases
    /\ invocations' = invocations \o [i \in 1..Len(r.cases) |-> <<>>]
    /\ report' = report \o [i \in 1..Len(r.cases) |-> NotRun]
    /\ loaded' = IF r.threw THEN "threw" ELSE "ok"
    /\ factoryCalls' = factoryCalls + r.factoryCalls
    /\ skipEvals' = skipEvals \o r.skipEvals
    /\ UNCHANGED <<nodeEnv, pending>>

DecorateTest ==
    /\ loaded = "no"
    /\ pending.decorator = "Test"
    /\ Collected(Test(pending.config, pending.method, nodeEnv))
    /\ UNCHANGED retryVars
    /\ UNCHANGED wrapVars
    /\ UNCHANGED loopVars

DecorateTestWithData ==
    /\ loaded = "no"
    /\ pending.decorator = "testWithData"
    /\ Collected(testWithData(pending.config, pending.method, nodeEnv))
    /\ UNCHANGED retryVars
    /\ UNCHANGED wrapVars
    /\ UNCHANGED loopVars

DecorateConditionalTest ==
    /\ loaded = "no"
    /\ pending.decorator = "conditionalTest"
    /\ Collected(conditionalTest(pending.config, pending.method, nodeEnv))
    /\ UNCHANGED retryVars
    /\ UNCHANGED wrapVars
    /\ UNCHANGED loopVars

DecorateTestDecorator ==
    /\ loaded = "no"
    /\ pending.decorator = "testDecorator"
    /\ Collected(testDecorator(pending.config, pending.method, nodeEnv))
    /\ UNCHANGED retryVars
    /\ UNCHANGED wrapVars
    /\ UNCHANGED loopVars

DecorateTestMethod ==
    /\ loaded = "no"
    /\ pending.decorator = "testMethod"
    /\ Collected(testMethod(pending.config, pending.method, nodeEnv))
    /\ UNCHANGED retryVars
    /\ UNCHANGED wrapVars
    /\ UNCHANGED loopVars

\* the body's call target(fixtures[, data]) throws a TypeError: the decorated
\* value is no function
BodyThrows(case) == case.callsTarget /\ pending.target # "function"

\* step of Decorators.ts: the decorator returns the replacement method without
\* looking at the decorated value
DecorateStep ==
    /\ loaded = "no"
    /\ pending.decorator = "step"
    /\ Collected(NoResult)
    /\ UNCHANGED retryVars
    /\ UNCHANGED wrapVars
    /\ UNCHANGED loopVars

\* console.log('Target:', target); console.log('PropertyKey:', propertyKey);
\* console.log('Descriptor:', descriptor), written before the check; the
\* descriptor is shown by the kind of value it holds
LegacyStepDebugLines ==
    <<Console("log", "Target:", Some(ClassName)),
      Console("log", "PropertyKey:", Some(pending.method)),
      Console("log", "Descriptor:", Some(pending.target))>>

\* the legacy step decorator: first the debug lines, then if (!descriptor || typeof descriptor.value !==
\* 'function') throw new Error('Step decorator can only be applied to methods.')
DecorateLegacyStep ==
    /\ loaded = "no"
    /\ pending.decorator = "legacyStep"
    /\ events' = events \o LegacyStepDebugLines
    /\ Collected([NoResult EXCEPT !.threw = (pending.target # "function")])
    /\ UNCHANGED retryVars
    /\ UNCHANGED <<wrapper, target, wpc, caught, completion>>
    /\ UNCHANGED loopVars

\* the runner starts the body of an active case whose decorated value is no
\* function: the call target(fixtures[, data]) throws, the body rejects at
\* once and the case fails
FailCase(i, f) ==
    /\ loaded = "ok"
    /\ report[i] = NotRun
    /\ ~registered[i].skipped
    /\ BodyThrows(registered[i])
    /\ report' = [report EXCEPT ![i] = [status |-> "failed", fixtures |-> f]]
    /\ UNCHANGED <<nodeEnv, pending, loaded, registered, invocations, factoryCalls, skipEvals>>
    /\ UNCHANGED retryVars
    /\ UNCHANGED wrapVars
    /\ UNCHANGED loopVars

\* the runner starts the body of an active case with a fixture bag: the body
\* calls the method and awaits it
StartCase(i, f) ==
    /\ loaded = "ok"
    /\ report[i] = NotRun
    /\ ~registered[i].skipped
    /\ ~BodyThrows(registered[i])
    /\ invocations' = [invocations EXCEPT ![i] = @ \o BodyCalls(registered[i], f)]
    /\ report' = [report EXCEPT ![i] = [status |-> "running", fixtures |-> f]]
    /\ UNCHANGED <<nodeEnv, pending, loaded, registered, factoryCalls, skipEvals>>
    /\ UNCHANGED retryVars
    /\ UNCHANGED wrapVars
    /\ UNCHANGED loopVars

\* the method a running body awaits settles, while other bodies may be running
FinishCase(i) ==
    /\ loaded = "ok"
    /\ report[i].status = "running"
    /\ report' = [report EXCEPT ![i].status = "ran"]
    /\ UNCHANGED <<nodeEnv, pending, loaded, registered, invocations, factoryCalls, skipEvals>>
    /\ UNCHANGED retryVars
    /\ UNCHANGED wrapVars
    /\ UNCHANGED loopVars

\* the runner reports a case declared with test.skip without running its body
ReportSkipped(i) ==
    /\ loaded = "ok"
    /\ report[i] = NotRun
    /\ registered[i].skipped
    /\ report' = [report EXCEPT ![i] = [status |-> "skipped", fixtures |-> ""]]
    /\ UNCHANGED <<nodeEnv, pending, loaded, registered, invocations, factoryCalls, skipEvals>>
    /\ UNCHANGED retryVars
    /\ UNCHANGED wrapVars
    /\ UNCHANGED loopVars

-----------------------------------------------------------------------------
(* Inputs *)

SeqsUpTo(S, n) == UNION {[1..k -> S] : k \in 0..n}

\* NODE_ENV: unset, empty, a lower-case name, and a name of mixed case with a
\* digit and a hyphen
EnvOpts == {Undefined, Some(""), Some("staging"), Some("Qa-2")}
TitleOpts == {Undefined, Some(""), Some("X")}
IdOpts == {Undefined, Some(""), Some("TC-1")}
TagOpts == {Undefined, Some(<<>>), Some(<<"a", "b">>)}
TimeoutOpts == {Undefined, Some(0), Some(5000)}
RetriesOpts == {Undefined, Some(2)}
DescriptionOpts == {Undefined, Some("d")}
AllKinds == {"string", "number", "object", "undefined", "function"}
SkipOpts == {SkipUndefined, SkipBoolean(TRUE), SkipBoolean(FALSE),
             SkipFunction({}), SkipFunction(AllKinds), SkipFunction({"object"})}
PredicateOpts == {Undefined, Some(SkipFunction({})), Some(SkipFunction(AllKinds)),
                  Some(SkipFunction({"object"}))}

\* data items whose JSON rendering is at, and one over, the cap of Test; the
\* second is over it by the six characters U+0001 is rendered with
TestItems == {Obj(1), Undef,
              Str(Repeat("x", TestTitleCap - 2)),
              Str(SubSeq(ControlChars, 1, 1) \o Repeat("x", TestTitleCap - 7))}
\* the same for the cap of testWithData
WithDataItems == {Obj(1), Undef,
                  Str(Repeat("y", WithDataTitleCap - 2)), Str(Repeat("y", WithDataTitleCap - 1))}

\* what a data factory returns
FactoryItems == {Obj(1), Obj(2)}

DataOpts(items) ==
    {DataArray(d) : d \in SeqsUpTo(items, MaxData)}
        \cup {DataFactory(d) : d \in SeqsUpTo(FactoryItems, MaxData)}

ObjectConfig(title, description, testCaseId, tags, data, skip, timeout, retries) ==
    [isString |-> FALSE, str |-> "", title |-> title, description |-> description,
     testCaseId |-> testCaseId, tags |-> tags, data |-> data, skip |-> skip,
     timeout |-> timeout, retries |-> retries]

\* configurations of a single (non-data-driven) case
SingleTestConfigs ==
    {StringConfig(s) : s \in {"", "X"}}
    \cup {ObjectConfig(t, d, id, tg, DataUndefined, sk, to, r) :
            t \in TitleOpts, d \in DescriptionOpts, id \in IdOpts, tg \in TagOpts,
            sk \in SkipOpts, to \in TimeoutOpts, r \in RetriesOpts}

\* data-driven configurations
DataSkipOpts == {SkipUndefined, SkipBoolean(TRUE), SkipFunction({"object"}),
                 SkipFunction(AllKinds)}
DataPredicateOpts == {Undefined, Some(SkipFunction({"object"})),
                      Some(SkipFunction(AllKinds))}

DataTestConfigs ==
    {ObjectConfig(t, Undefined, Undefined, tg, data, sk, to, Undefined) :
        t \in {Undefined, Some("X")}, tg \in {Undefined, Some(<<"a", "b">>)},
        data \in DataOpts(TestItems), sk \in DataSkipOpts,
        to \in {Undefined, Some(5000)}}

WithDataConfigs ==
    {[data |-> data, title |-> t, tags |-> tg, conditionalSkip |-> p] :
        data \in DataOpts(WithDataItems), t \in {Undefined, Some("X")},
        tg \in {Undefined, Some(<<"a", "b">>)}, p \in DataPredicateOpts}

ConditionalConfigs ==
    {[title |-> t, tags |-> tg, conditionalSkip |-> p] :
        t \in TitleOpts, tg \in TagOpts, p \in PredicateOpts}

TitleConfigs == {[title |-> t] : t \in TitleOpts}

\* a decorator applied, by the class body, to a method: the decorated value is
\* a function
Decoration(decorator, config) ==
    [decorator |-> decorator, config |-> config, method |-> MethodName,
     target |-> "function"]

\* the same decorators applied by hand to a value that is no function
NonFunctions == {"undefined", "object"}

TargetPendings ==
    LET decorations ==
            {Decoration("Test", c) :
                c \in {StringConfig("X")}
                      \cup {ObjectConfig(t, Undefined, Undefined, Undefined, d, sk,
                                         Undefined, Undefined) :
                              t \in {Undefined, Some("X")},
                              d \in {DataUndefined, DataArray(<<Obj(1), Obj(2)>>)},
                              sk \in {SkipUndefined, SkipBoolean(TRUE)}}}
            \cup {Decoration("testWithData",
                             [data |-> DataArray(<<Obj(1), Obj(2)>>), title |-> t,
                              tags |-> Undefined, conditionalSkip |-> p]) :
                    t \in {Undefined, Some("X")},
                    p \in {Undefined, Some(SkipFunction({"object"}))}}
            \cup {Decoration("conditionalTest",
                             [title |-> t, tags |-> Undefined, conditionalSkip |-> p]) :
                    t \in {Undefined, Some("X")},
                    p \in {Undefined, Some(SkipFunction({"undefined"}))}}
            \cup {Decoration(d, [title |-> t]) :
                    d \in {"testDecorator", "testMethod", "step", "legacyStep"},
                    t \in {Undefined, Some("X")}}
    IN  {[d EXCEPT !.target = k] : d \in decorations, k \in {"function"} \cup NonFunctions}

SinglePendings ==
    {Decoration("Test", c) : c \in SingleTestConfigs}
    \cup {Decoration("conditionalTest", c) : c \in ConditionalConfigs}
    \cup {Decoration("testDecorator", c) : c \in TitleConfigs}
    \cup {Decoration("testMethod", c) : c \in TitleConfigs}

\* data-driven decorations whose cases the runner executes concurrently
InterleavedPendings ==
    LET dataSets == {DataArray(d) : d \in SeqsUpTo({Obj(1), Obj(2)}, MaxData)}
                    \cup {DataFactory(d) : d \in SeqsUpTo({Obj(1), Obj(2)}, MaxData)}
    IN  {Decoration("Test",
                    ObjectConfig(Undefined, Undefined, Undefined, Undefined, data, sk,
                                 Undefined, Undefined)) :
            data \in dataSets,
            sk \in {SkipUndefined, SkipFunction({"object"}), SkipFunction({})}}
        \cup {Decoration("testWithData",
                         [data |-> data, title |-> Undefined, tags |-> Undefined,
                          conditionalSkip |-> p]) :
                data \in dataSets, p \in {Undefined, Some(SkipFunction({"object"}))}}

\* decorations whose registration may stop half-way: data-driven ones with an
\* element without JSON rendering, or one the skip function throws for, and
\* non-data-driven ones whose skip function throws when called without argument
PartialItems == {Obj(1), Str("a\nb"), Undef}
PartialPredicates ==
    {SkipFunction({"object"}), SkipFunctionThrowing({"object"}, {"string"}),
     SkipFunctionThrowing({}, {"string"})}
PartialSinglePredicates ==
    {SkipFunction({}), SkipFunction({"undefined"}),
     SkipFunctionThrowing({}, {"undefined"})}
PartialPendings ==
    LET dataSets == {DataArray(d) : d \in SeqsUpTo(PartialItems, MaxData)}
                    \cup {DataFactory(d) : d \in SeqsUpTo(PartialItems, MaxData)}
    IN  {Decoration("Test",
                    ObjectConfig(Undefined, Undefined, Undefined, Undefined, data, sk,
                                 Undefined, Undefined)) :
            data \in dataSets, sk \in {SkipUndefined} \cup PartialPredicates}
        \cup {Decoration("testWithData",
                         [data |-> data, title |-> Undefined, tags |-> Undefined,
                          conditionalSkip |-> p]) :
                data \in dataSets,
                p \in {Undefined} \cup {Some(q) : q \in PartialPredicates}}
        \cup {Decoration("Test", StringConfig("X"))}
        \cup {Decoration("Test",
                         ObjectConfig(Undefined, Undefined, Undefined, Undefined,
                                      DataUndefined, sk, Undefined, Undefined)) :
                sk \in {SkipUndefined, SkipBoolean(TRUE)} \cup PartialSinglePredicates}
        \cup {Decoration("conditionalTest",
                         [title |-> Undefined, tags |-> Undefined,
                          conditionalSkip |-> p]) :
                p \in {Undefined} \cup {Some(q) : q \in PartialSinglePredicates}}
        \cup {Decoration(d, [title |-> t]) :
                d \in {"testDecorator", "testMethod"}, t \in {Undefined, Some("X")}}

DataPendings ==
    {Decoration("Test", c) : c \in DataTestConfigs}
    \cup {Decoration("testWithData", c) : c \in WithDataConfigs}

-----------------------------------------------------------------------------
(* retry *)

RetryDefaultAttempts == 3
RetryDefaultDelay == 1000

\* the default also taken for a falsy count: attempts || 3
RetryAttempts_OrDefault(a) ==
    IF a = Undefined \/ a[1] = 0 THEN RetryDefaultAttempts ELSE a[1]

\* retry(attempts: number = 3, delay: number = 1000)
RetryAttempts(a) == IF a = Undefined THEN RetryDefaultAttempts ELSE a[1]
RetryDelay(d) == IF d = Undefined THEN RetryDefaultDelay ELSE d[1]

\* the wrapped method: its k-th invocation fails with the error message
\* ErrorMessage(k) when k <= failures or failures = -1, and returns
\* TargetResult otherwise
TargetFails(k) == failures = -1 \/ k <= failures
ErrorMessage(k) == "E" \o ToString(k)
TargetResult == "result"

\* new Error(`Method failed after ${attempts} attempts. Last error: ${lastError.message}`)
RetryExhaustedMessage(n, message) ==
    "Method failed after " \o ToString(n) \o " attempts. Last error: " \o message

\* the loop test off by one: attempt < attempts
RetryLoopCondition_Strict(a, n) == a < n

\* for (let attempt = 1; attempt <= attempts; attempt++)
RetryLoopCondition(a, n) == a <= n

\* every caught error taken for the last attempt's
RetryIsLastAttempt_Always(a, n) == TRUE

\* if (attempt === attempts)
RetryIsLastAttempt(a, n) == a = n

\* `${className}.${methodName} (with retry)`
RetryStepTitle == QualifiedName \o " (with retry)"

\* the step of retry ends when its body has settled
RetryStepEnds ==
    events' = IF pc' = "done" THEN Append(events, StepEnd(outcome')) ELSE events

\* replacementMethod is called: the step opens, the loop starts
RetryCall ==
    /\ pc = "start"
    /\ attempt' = 1
    /\ pc' = "loop"
    /\ events' = Append(events, StepBegin(RetryStepTitle, [none |-> TRUE]))
    /\ UNCHANGED <<attempts, delay, failures, targetCalls, delays, lastError, outcome>>
    /\ UNCHANGED regVars
    /\ UNCHANGED <<wrapper, target, wpc, caught, completion>>
    /\ UNCHANGED loopVars

\* the loop test: invoke the method, or leave the loop and resolve undefined
RetryLoop ==
    /\ pc = "loop"
    /\ IF RetryLoopCondition(attempt, RetryAttempts(attempts))
       THEN /\ targetCalls' = targetCalls + 1
            /\ pc' = "target"
            /\ UNCHANGED outcome
       ELSE /\ outcome' = [k |-> "returned", value |-> Undefined]
            /\ pc' = "done"
            /\ UNCHANGED targetCalls
    /\ RetryStepEnds
    /\ UNCHANGED <<attempts, delay, failures, attempt, delays, lastError>>
    /\ UNCHANGED regVars
    /\ UNCHANGED <<wrapper, target, wpc, caught, completion>>
    /\ UNCHANGED loopVars

\* the awaited method settles: return its result, or catch its error
RetryTargetSettles ==
    /\ pc = "target"
    /\ IF ~TargetFails(targetCalls)
       THEN /\ outcome' = [k |-> "returned", value |-> Some(TargetResult)]
            /\ pc' = "done"
            /\ UNCHANGED lastError
       ELSE /\ lastError' = Some(ErrorMessage(targetCalls))
            /\ IF RetryIsLastAttempt(attempt, RetryAttempts(attempts))
               THEN /\ outcome' = [k |-> "threw",
                                   value |-> Some(RetryExhaustedMessage(
                                       RetryAttempts(attempts), ErrorMessage(targetCalls)))]
                    /\ pc' = "done"
               ELSE /\ pc' = "sleep"
                    /\ UNCHANGED outcome
    /\ RetryStepEnds
    /\ UNCHANGED <<attempts, delay, failures, attempt, targetCalls, delays>>
    /\ UNCHANGED regVars
    /\ UNCHANGED <<wrapper, target, wpc, caught, completion>>
    /\ UNCHANGED loopVars

\* the timer of setTimeout(resolve, delay) fires: next iteration
RetryDelayElapsed ==
    /\ pc = "sleep"
    /\ delays' = Append(delays, RetryDelay(delay))
    /\ attempt' = attempt + 1
    /\ pc' = "loop"
    /\ UNCHANGED <<attempts, delay, failures, targetCalls, lastError, outcome>>
    /\ UNCHANGED regVars
    /\ UNCHANGED wrapVars
    /\ UNCHANGED loopVars

-----------------------------------------------------------------------------
(* step, boxedStep, timeout, performance, screenshot, waitFor, log *)

\* the options test.step is called with
StepOptions(w) ==
    IF w.kind = "boxedStep" THEN [box |-> TRUE]
    ELSE IF w.kind = "timeout" THEN [timeout |-> w.maxtimeout]
    ELSE [none |-> TRUE]

\* the step wrapper starting the method before it opens the step
StepEntry_TargetFirst(w) ==
    <<TargetCall, StepBegin(StepName(w.description), StepOptions(w))>>

\* return test.step(stepName, async () => { return await target.call(this, ...args) })
\* up to the await
StepEntry(w) ==
    <<StepBegin(StepName(w.description), StepOptions(w)), TargetCall>>

\* the comparison admitting a duration equal to the threshold
Exceeds_OrEqual(threshold, duration) ==
    TruthyNum(threshold) /\ duration >= threshold[1]

\* configOptions.xThreshold && duration > configOptions.xThreshold
Exceeds(threshold, duration) ==
    TruthyNum(threshold) /\ duration > threshold[1]

PerformanceTook(duration) ==
    "Performance: " \o QualifiedName \o " took " \o ToString(duration) \o "ms"

PerformanceWarning(duration, threshold) ==
    "Warning: " \o QualifiedName \o " exceeded warn threshold (" \o ToString(duration)
        \o "ms > " \o ToString(threshold) \o "ms)"

PerformanceErrorMessage(duration, threshold) ==
    "Performance error: " \o QualifiedName \o " exceeded error threshold ("
        \o ToString(duration) \o "ms > " \o ToString(threshold) \o "ms)"

PerformanceMemory(bytes) ==
    "Memory: " \o QualifiedName \o " used " \o ToString(bytes) \o " bytes"

PerformanceFailed(duration) ==
    "Performance: " \o QualifiedName \o " failed after " \o ToString(duration) \o "ms"

\* new Date().toISOString().replace(/[:.]/g, '-') at the time of the call
Timestamp == "2024-01-01T00-00-00-000Z"

\* configOptions.path || `screenshots/${className}-${methodName}-${timestamp}`
BasePath(configOptions) ==
    IF TruthyStr(configOptions.path) THEN configOptions.path[1]
    ELSE "screenshots/" \o ClassName \o "-" \o MethodName \o "-" \o Timestamp

\* the rejection of a page operation
PageError(operation) == operation \o " failed"

\* if (configOptions.onSuccess || configOptions.afterExecution)
TakesSuccessCapture(configOptions) ==
    TruthyBool(configOptions.onSuccess) \/ TruthyBool(configOptions.afterExecution)

\* state: configOptions.state || 'visible'
WaitState(configOptions) ==
    IF TruthyStr(configOptions.state) THEN configOptions.state[1] ELSE "visible"

\* the continuation that starts the method without the URL wait
WaitForAfterElement_SkipsUrl(configOptions) ==
    [evs |-> <<TargetCall>>, pc |-> "target"]

\* what follows the element wait: if (configOptions.url) await page.waitForURL(...),
\* then the call of the method
WaitForAfterElement(configOptions) ==
    IF TruthyStr(configOptions.url)
    THEN [evs |-> <<WaitURL(configOptions.url[1], configOptions.timeout)>>,
          pc |-> "waitUrl"]
    ELSE [evs |-> <<TargetCall>>, pc |-> "target"]

\* const level = configOptions.level || 'info'
LogLevel(configOptions) ==
    IF TruthyStr(configOptions.level) THEN configOptions.level[1] ELSE "info"

\* `[${level.toUpperCase()}] ...`
LogPrefix(level) == "[" \o toUpperCase(level) \o "] "

LogEntering(level) == LogPrefix(level) \o "Entering " \o QualifiedName
LogArguments(level) == LogPrefix(level) \o "Arguments:"
LogCompleted(level) == LogPrefix(level) \o "Completed " \o QualifiedName
LogDuration(level, duration) ==
    LogPrefix(level) \o "Duration: " \o ToString(duration) \o "ms"
LogResult(level) == LogPrefix(level) \o "Result:"
LogFailed(duration) ==
    "[ERROR] Failed " \o QualifiedName \o " after " \o ToString(duration) \o "ms:"

\* the lines log writes before it calls the method
LogEntryLines(configOptions) ==
    LET level == LogLevel(configOptions)
    IN  <<Console(level, LogEntering(level), Undefined)>>
        \o (IF TruthyBool(configOptions.logArgs)
            THEN <<Console(level, LogArguments(level), Some(CallArgs))>> ELSE <<>>)

\* the lines log writes after the method returned result
LogSuccessLines(configOptions, result, duration) ==
    LET level == LogLevel(configOptions)
    IN  <<Console(level, LogCompleted(level), Undefined)>>
        \o (IF TruthyBool(configOptions.logDuration)
            THEN <<Console(level, LogDuration(level, duration), Undefined)>> ELSE <<>>)
        \o (IF TruthyBool(configOptions.logResult) /\ result # Undefined
            THEN <<Console(level, LogResult(level), Some(result[1]))>> ELSE <<>>)

\* the step goes on to its next await
Goto(evs, next, err) ==
    /\ events' = events \o evs
    /\ wpc' = next
    /\ caught' = err
    /\ UNCHANGED <<wrapper, target, completion>>

\* the body of the step settles, which ends the step, and the replacement
\* method settles the same way
Settle(evs, o) ==
    /\ events' = events \o evs \o <<StepEnd(o)>>
    /\ wpc' = "done"
    /\ completion' = o
    /\ UNCHANGED <<wrapper, target, caught>>

StepKinds == {"step", "boxedStep", "timeout"}

\* step / boxedStep / timeout: replacementMethod up to the await
StepCall ==
    /\ wpc = "start"
    /\ wrapper.kind \in StepKinds
    /\ Goto(StepEntry(wrapper), "target", Undefined)
    /\ UNCHANGED regVars
    /\ UNCHANGED retryVars
    /\ UNCHANGED loopVars

\* the step's time limit: the method settles within it, or there is none
WithinStepTimeout ==
    wrapper.kind = "timeout" => (wrapper.maxtimeout = 0 \/ target.duration <= wrapper.maxtimeout)

\* return await target.call(this, ...args) settles, and the step with it. The
\* wrapper sets no limit of its own: a method that outlasts maxtimeout settles
\* like any other unless the runner ends the step first
StepTargetSettles ==
    /\ wpc = "target"
    /\ wrapper.kind \in StepKinds
    /\ Settle(<<TargetSettled(target.throws)>>, TargetOutcome(target))
    /\ UNCHANGED regVars
    /\ UNCHANGED retryVars
    /\ UNCHANGED loopVars

\* { timeout: maxtimeout }: all the wrapper does is hand the limit to
\* test.step. Whether the step is ended once the limit has passed, and with
\* which error, is the runner's doing (@playwright/test), so past the limit
\* this step and StepTargetSettles are both possible
StepTimeoutExpires ==
    /\ wpc = "target"
    /\ wrapper.kind = "timeout"
    /\ ~WithinStepTimeout
    /\ Settle(<<>>, Threw("Step timeout of " \o ToString(wrapper.maxtimeout)
                             \o "ms exceeded."))
    /\ UNCHANGED regVars
    /\ UNCHANGED retryVars
    /\ UNCHANGED loopVars

PerformanceCall ==
    /\ wpc = "start"
    /\ wrapper.kind = "performance"
    /\ Goto(<<StepBegin(QualifiedName \o " (performance tracked)", [none |-> TRUE]),
              TargetCall>>, "target", Undefined)
    /\ UNCHANGED regVars
    /\ UNCHANGED retryVars
    /\ UNCHANGED loopVars

\* the rest of the try block once the method settled, and the catch block.
\* The catch block reads the clock for itself: after the budget error thrown
\* in the try block it is the second reading of the call, target.clockLag ms
\* after the first
PerformanceTargetSettles ==
    /\ wpc = "target"
    /\ wrapper.kind = "performance"
    /\ LET c == wrapper.configOptions
           duration == target.duration
           took == <<TargetSettled(target.throws)>>
           failed == <<Console("error", PerformanceFailed(duration), Undefined)>>
           failedLater ==
               <<Console("error", PerformanceFailed(duration + target.clockLag),
                         Undefined)>>
           measured ==
               <<Console("log", PerformanceTook(duration), Undefined)>>
               \o (IF Exceeds(c.warnThreshold, duration)
                   THEN <<Console("warn", PerformanceWarning(duration, c.warnThreshold[1]),
                                  Undefined)>>
                   ELSE <<>>)
           memory ==
               IF TruthyBool(c.trackMemory)
               THEN <<Console("log", PerformanceMemory(target.heapUsed), Undefined)>>
               ELSE <<>>
       IN  IF target.throws
           THEN Settle(took \o failed, Threw(TargetError))
           ELSE IF Exceeds(c.errorThreshold, duration)
           THEN Settle(took \o measured \o failedLater,
                       Threw(PerformanceErrorMessage(duration, c.errorThreshold[1])))
           ELSE Settle(took \o measured \o memory, Returned(target.result))
    /\ UNCHANGED regVars
    /\ UNCHANGED retryVars
    /\ UNCHANGED loopVars

\* catch (error) { if (configOptions.onError) await page.screenshot(...); throw error }
ScreenshotCatch(evs, err) ==
    IF TruthyBool(wrapper.configOptions.onError)
    THEN Goto(evs \o <<Capture(BasePath(wrapper.configOptions) \o "-error.png")>>,
              "errorShot", Some(err))
    ELSE Settle(evs, Threw(err))

ScreenshotCall ==
    /\ wpc = "start"
    /\ wrapper.kind = "screenshot"
    /\ LET begin == <<StepBegin(QualifiedName \o " (with screenshots)", [none |-> TRUE])>>
       IN  IF TruthyBool(wrapper.configOptions.beforeExecution)
           THEN Goto(begin \o <<Capture(BasePath(wrapper.configOptions) \o "-before.png")>>,
                     "beforeShot", Undefined)
           ELSE Goto(begin \o <<TargetCall>>, "target", Undefined)
    /\ UNCHANGED regVars
    /\ UNCHANGED retryVars
    /\ UNCHANGED loopVars

\* the capture before execution resolves or rejects
ScreenshotBeforeSettles ==
    /\ wpc = "beforeShot"
    /\ \E ok \in BOOLEAN :
          IF ok THEN Goto(<<PageSettled(TRUE), TargetCall>>, "target", Undefined)
          ELSE ScreenshotCatch(<<PageSettled(FALSE)>>, PageError("page.screenshot"))
    /\ UNCHANGED regVars
    /\ UNCHANGED retryVars
    /\ UNCHANGED loopVars

ScreenshotTargetSettles ==
    /\ wpc = "target"
    /\ wrapper.kind = "screenshot"
    /\ IF target.throws
       THEN ScreenshotCatch(<<TargetSettled(TRUE)>>, TargetError)
       ELSE IF TakesSuccessCapture(wrapper.configOptions)
       THEN Goto(<<TargetSettled(FALSE),
                   Capture(BasePath(wrapper.configOptions) \o "-success.png")>>,
                 "successShot", Undefined)
       ELSE Settle(<<TargetSettled(FALSE)>>, Returned(target.result))
    /\ UNCHANGED regVars
    /\ UNCHANGED retryVars
    /\ UNCHANGED loopVars

\* the success capture resolves or rejects (inside the try block)
ScreenshotSuccessSettles ==
    /\ wpc = "successShot"
    /\ \E ok \in BOOLEAN :
          IF ok THEN Settle(<<PageSettled(TRUE)>>, Returned(target.result))
          ELSE ScreenshotCatch(<<PageSettled(FALSE)>>, PageError("page.screenshot"))
    /\ UNCHANGED regVars
    /\ UNCHANGED retryVars
    /\ UNCHANGED loopVars

\* the error capture resolves, then throw error; or it rejects inside the
\* catch block, and its rejection is what the step fails with
ScreenshotErrorSettles ==
    /\ wpc = "errorShot"
    /\ \E ok \in BOOLEAN :
          IF ok THEN Settle(<<PageSettled(TRUE)>>, Threw(caught[1]))
          ELSE Settle(<<PageSettled(FALSE)>>, Threw(PageError("page.screenshot")))
    /\ UNCHANGED regVars
    /\ UNCHANGED retryVars
    /\ UNCHANGED loopVars

WaitForCall ==
    /\ wpc = "start"
    /\ wrapper.kind = "waitFor"
    /\ LET c == wrapper.configOptions
           begin == <<StepBegin(QualifiedName \o " (with wait conditions)", [none |-> TRUE])>>
       IN  IF TruthyStr(c.element)
           THEN Goto(begin \o <<WaitElement(c.element[1], WaitState(c), c.timeout)>>,
                     "waitElement", Undefined)
           ELSE Goto(begin \o WaitForAfterElement(c).evs, WaitForAfterElement(c).pc,
                     Undefined)
    /\ UNCHANGED regVars
    /\ UNCHANGED retryVars
    /\ UNCHANGED loopVars

\* page.locator(element).waitFor(...) resolves or rejects
WaitForElementSettles ==
    /\ wpc = "waitElement"
    /\ \E ok \in BOOLEAN :
          IF ok
          THEN Goto(<<PageSettled(TRUE)>> \o WaitForAfterElement(wrapper.configOptions).evs,
                    WaitForAfterElement(wrapper.configOptions).pc, Undefined)
          ELSE Settle(<<PageSettled(FALSE)>>, Threw(PageError("locator.waitFor")))
    /\ UNCHANGED regVars
    /\ UNCHANGED retryVars
    /\ UNCHANGED loopVars

\* page.waitForURL(...) resolves or rejects
WaitForUrlSettles ==
    /\ wpc = "waitUrl"
    /\ \E ok \in BOOLEAN :
          IF ok THEN Goto(<<PageSettled(TRUE), TargetCall>>, "target", Undefined)
          ELSE Settle(<<PageSettled(FALSE)>>, Threw(PageError("page.waitForURL")))
    /\ UNCHANGED regVars
    /\ UNCHANGED retryVars
    /\ UNCHANGED loopVars

WaitForTargetSettles ==
    /\ wpc = "target"
    /\ wrapper.kind = "waitFor"
    /\ Settle(<<TargetSettled(target.throws)>>, TargetOutcome(target))
    /\ UNCHANGED regVars
    /\ UNCHANGED retryVars
    /\ UNCHANGED loopVars

\* the marks in front of debug's console lines, as the code points of their
\* characters in the source file (U+00F0 U+0178 U+203A, U+00E2 U+0153 U+2026,
\* U+00E2 U+0152)
DebugEnteringMark == <<240, 376, 8250>>
DebugCompletedMark == <<226, 339, 8230>>
DebugFailedMark == <<226, 338>>

\* the text that follows the mark, up to the first argument
DebugEntering == " Entering " \o MethodName \o " with args:"
DebugCompleted == " " \o MethodName \o " completed with result:"
DebugFailed == " " \o MethodName \o " failed:"

\* console[method](`${mark}${text}`, rest)
DebugConsole(method, mark, text, rest) ==
    [e |-> "console", method |-> method, mark |-> mark, text |-> text, rest |-> rest]

\* debug: replacementMethod writes the entry line and calls the method; it
\* opens no step
DebugCall ==
    /\ wpc = "start"
    /\ wrapper.kind = "debug"
    /\ Goto(<<DebugConsole("log", DebugEnteringMark, DebugEntering, Some(CallArgs)),
              TargetCall>>,
            "target", Undefined)
    /\ UNCHANGED regVars
    /\ UNCHANGED retryVars
    /\ UNCHANGED loopVars

\* debug: the method settled; the result, or the error, is written and passed on
DebugTargetSettles ==
    /\ wpc = "target"
    /\ wrapper.kind = "debug"
    /\ events' = events \o <<TargetSettled(target.throws),
                              IF target.throws
                              THEN DebugConsole("error", DebugFailedMark, DebugFailed,
                                                Some(TargetError))
                              ELSE DebugConsole("log", DebugCompletedMark,
                                                DebugCompleted, target.result)>>
    /\ wpc' = "done"
    /\ completion' = TargetOutcome(target)
    /\ UNCHANGED <<wrapper, target, caught>>
    /\ UNCHANGED regVars
    /\ UNCHANGED retryVars
    /\ UNCHANGED loopVars

\* const name = `${stepName || (context.name as string)} (${this.name})`
FixtureStepName(stepName, thisName) ==
    (IF TruthyStr(stepName) THEN stepName[1] ELSE MethodName)
        \o " (" \o (IF thisName = Undefined THEN "undefined" ELSE thisName[1]) \o ")"

\* the step decorator of the fixtures file: replacementMethod opens the step
\* and calls the method
FixtureStepCall ==
    /\ wpc = "start"
    /\ wrapper.kind = "fixtureStep"
    /\ Goto(<<StepBegin(FixtureStepName(wrapper.stepName, wrapper.thisName),
                        [none |-> TRUE]),
              TargetCall>>, "target", Undefined)
    /\ UNCHANGED regVars
    /\ UNCHANGED retryVars
    /\ UNCHANGED loopVars

\* return await target.call(this, ...args) settles, and the step with it
FixtureStepTargetSettles ==
    /\ wpc = "target"
    /\ wrapper.kind = "fixtureStep"
    /\ Settle(<<TargetSettled(target.throws)>>, TargetOutcome(target))
    /\ UNCHANGED regVars
    /\ UNCHANGED retryVars
    /\ UNCHANGED loopVars

\* stepName || propertyKey
LegacyStepName(stepName, propertyKey) ==
    IF TruthyStr(stepName) THEN stepName[1] ELSE propertyKey

\* the method the legacy step decorator put in the descriptor is called: it
\* opens the step and calls the original method
LegacyStepCall ==
    /\ pending.decorator = "legacyStep"
    /\ loaded = "ok"
    /\ wpc = "idle"
    /\ Goto(<<StepBegin(LegacyStepName(pending.config.title, pending.method),
                        [none |-> TRUE]),
              TargetCall>>, "target", Undefined)
    /\ UNCHANGED regVars
    /\ UNCHANGED retryVars
    /\ UNCHANGED loopVars

\* return await originalMethod.apply(this, args) settles, and the step with it
LegacyStepTargetSettles ==
    /\ pending.decorator = "legacyStep"
    /\ wpc = "target"
    /\ Settle(<<TargetSettled(target.throws)>>, TargetOutcome(target))
    /\ UNCHANGED regVars
    /\ UNCHANGED retryVars
    /\ UNCHANGED loopVars

LogCall ==
    /\ wpc = "start"
    /\ wrapper.kind = "log"
    /\ Goto(<<StepBegin(QualifiedName, [none |-> TRUE])>>
              \o LogEntryLines(wrapper.configOptions) \o <<TargetCall>>,
            "target", Undefined)
    /\ UNCHANGED regVars
    /\ UNCHANGED retryVars
    /\ UNCHANGED loopVars

LogTargetSettles ==
    /\ wpc = "target"
    /\ wrapper.kind = "log"
    /\ IF target.throws
       THEN Settle(<<TargetSettled(TRUE),
                     Console("error", LogFailed(target.duration), Some(TargetError))>>,
                   Threw(TargetError))
       ELSE Settle(<<TargetSettled(FALSE)>>
                     \o LogSuccessLines(wrapper.configOptions, target.result,
                                        target.duration),
                   Returned(target.result))
    /\ UNCHANGED regVars
    /\ UNCHANGED retryVars
    /\ UNCHANGED loopVars

\* the wrapped methods' configurations
OptBool == {Undefined, Some(TRUE), Some(FALSE)}

StepWrappers ==
    [kind : {"step", "boxedStep"}, description : {Undefined, Some(""), Some("open login")}]

TimeoutWrappers ==
    [kind : {"timeout"}, maxtimeout : {0, 10},
     description : {Undefined, Some("open login")}]

PerformanceWrappers ==
    [kind : {"performance"},
     configOptions : [warnThreshold : {Undefined, Some(0), Some(10)},
                      errorThreshold : {Undefined, Some(0), Some(10)},
                      trackMemory : OptBool]]

ScreenshotWrappers ==
    [kind : {"screenshot"},
     configOptions : [onError : OptBool, onSuccess : OptBool,
                      beforeExecution : OptBool, afterExecution : OptBool,
                      path : {Undefined, Some("shots/login")}]]

WaitForWrappers ==
    [kind : {"waitFor"},
     configOptions : [element : {Undefined, Some(""), Some("#login")},
                      state : {Undefined, Some("hidden")},
                      timeout : {Undefined, Some(5000)},
                      url : {Undefined, Some("/home")}]]

LogWrappers ==
    [kind : {"log"},
     configOptions : [level : {Undefined, Some("warn")},
                      logArgs : OptBool, logResult : OptBool, logDuration : OptBool]]

DebugWrappers == {[kind |-> "debug"]}

\* this.name is a property the page objects may or may not have
FixtureStepWrappers ==
    [kind : {"fixtureStep"}, stepName : {Undefined, Some(""), Some("Open login")},
     thisName : {Undefined, Some("loginPage")}]

Wrappers ==
    StepWrappers \cup TimeoutWrappers \cup PerformanceWrappers
        \cup ScreenshotWrappers \cup WaitForWrappers \cup LogWrappers
        \cup DebugWrappers \cup FixtureStepWrappers

\* what the runtime decides in a call, as samples of what it can be: the
\* milliseconds Date.now() has advanced from startTime to the reading after
\* the method settled (at, just over and well over the thresholds of the
\* wrappers), the milliseconds from that reading to the one in the catch block
\* (the console lines written in between take from nothing to tens of
\* milliseconds), and the difference of the two heapUsed readings, which a
\* collection in between makes negative. No step tests the last two.
Durations == {0, 10, 11, 19}
ClockLags == {0, 1, 8, 22, 46}
HeapDiffs == {-4096, 64, 910000}

\* how the wrapped method and the clock behave in a call: the method throws
\* TargetError or returns result (undefined for a method without a return
\* value); the wrapper's reading of the clock once the method has settled is
\* duration ms after the start, a later reading in the same call is clockLag
\* ms after that one; heapUsed bytes were allocated in between
Targets ==
    [throws : {TRUE}, result : {Undefined}, duration : Durations, heapUsed : HeapDiffs,
     clockLag : {0}]
        \cup [throws : {FALSE}, result : {Undefined, Some("v")},
              duration : Durations, heapUsed : HeapDiffs, clockLag : ClockLags]

-----------------------------------------------------------------------------
(* dataProvider *)

\* `${x}` of an optional string
TemplateString(o) == IF o = Undefined THEN "undefined" ELSE o[1]

\* `Dataset ${i + 1}: ${JSON.stringify(item)}`, with i counted from 1 here
DatasetTitle(i, item) ==
    "Dataset " \o ToString(i) \o ": " \o TemplateString(JSONstringify(item))

\* target.call(this, item, ...args)
ProviderTargetCall(item) == [e |-> "target.call", args |-> <<item>> \o CallArgs]

\* const testData = typeof data === 'function' ? data() : data
DataResolved(data) == IF data.k = "function" THEN <<[e |-> "data()"]>> ELSE <<>>

\* what the method returns for the i-th item: nothing, null or a value
ProviderResult(t, i) ==
    IF t.returns = "value" THEN Some("r" \o ToString(i))
    ELSE IF t.returns = "null" THEN Some("null")
    ELSE Undefined

\* if (result !== undefined && result !== null) results.push(result)
CollectedResult(result) ==
    IF result # Undefined /\ result # Some("null") THEN <<result[1]>> ELSE <<>>

\* the loop going on after an invocation that threw
ProviderStopsAt_Never(t, i) == FALSE

\* the invocation for the i-th item throws, which ends the loop
ProviderStopsAt(t, i) == t.throwsAt = i

\* the step of the i-th item opened and the method called with the item
ProviderItemEntry(items, i) ==
    <<StepBegin(DatasetTitle(i, items[i]), [none |-> TRUE]), ProviderTargetCall(items[i])>>

\* return hasResults ? results : undefined
ProviderReturn(collected) ==
    Returned(IF collected # <<>> THEN Some(collected) ELSE Undefined)

\* replacementMethod up to the first await
ProviderCall ==
    /\ wpc = "start"
    /\ wrapper.kind = "dataProvider"
    /\ LET items == wrapper.data.items
           begin == DataResolved(wrapper.data)
                    \o <<StepBegin(QualifiedName \o " (data-driven with results)",
                                   [none |-> TRUE])>>
       IN  IF Len(items) = 0
           THEN /\ events' = events \o begin \o <<StepEnd(ProviderReturn(<<>>))>>
                /\ wpc' = "done"
                /\ completion' = ProviderReturn(<<>>)
                /\ itemIndex' = 1
           ELSE /\ events' = events \o begin \o ProviderItemEntry(items, 1)
                /\ wpc' = "target"
                /\ completion' = completion
                /\ itemIndex' = 1
    /\ results' = <<>>
    /\ UNCHANGED <<wrapper, target, caught>>
    /\ UNCHANGED regVars
    /\ UNCHANGED retryVars

\* the invocation for the current item settles: the item's step ends, and the
\* loop goes on with the next item, returns, or is left by the error
ProviderTargetSettles ==
    /\ wpc = "target"
    /\ wrapper.kind = "dataProvider"
    /\ LET items == wrapper.data.items
           result == ProviderResult(target, itemIndex)
           collected == results \o CollectedResult(result)
       IN  IF ProviderStopsAt(target, itemIndex)
           THEN /\ events' = events \o <<TargetSettled(TRUE), StepEnd(Threw(TargetError)),
                                         StepEnd(Threw(TargetError))>>
                /\ wpc' = "done"
                /\ completion' = Threw(TargetError)
                /\ UNCHANGED <<itemIndex, results>>
           ELSE IF itemIndex < Len(items)
           THEN /\ events' = events \o <<TargetSettled(FALSE), StepEnd(Returned(result))>>
                                   \o ProviderItemEntry(items, itemIndex + 1)
                /\ wpc' = "target"
                /\ completion' = completion
                /\ itemIndex' = itemIndex + 1
                /\ results' = collected
           ELSE /\ events' = events \o <<TargetSettled(FALSE), StepEnd(Returned(result)),
                                         StepEnd(ProviderReturn(collected))>>
                /\ wpc' = "done"
                /\ completion' = ProviderReturn(collected)
                /\ itemIndex' = itemIndex
                /\ results' = collected
    /\ UNCHANGED <<wrapper, target, caught>>
    /\ UNCHANGED regVars
    /\ UNCHANGED retryVars

ProviderItems == {Obj(1), Obj(2), Undef}

ProviderWrappers ==
    [kind : {"dataProvider"},
     data : {DataArray(d) : d \in SeqsUpTo(ProviderItems, MaxData)}
              \cup {DataFactory(d) : d \in SeqsUpTo(ProviderItems, MaxData)}]

\* how the wrapped method behaves in this call: its invocation number throwsAt
\* throws (0: none does), the others return nothing, null or a value
ProviderTargets ==
    [throwsAt : 0..MaxData, returns : {"nothing", "null", "value"}]

-----------------------------------------------------------------------------
(* retry stacked outside another wrapper *)

\* retry's await target.call(this, ...args), the target being the replacement
\* method of the inner wrapper: the inner call starts
StackedTargetStarts ==
    /\ pc = "target"
    /\ wpc = "idle"
    /\ wpc' = "start"
    /\ completion' = Pending
    /\ UNCHANGED <<wrapper, target, caught, events>>
    /\ UNCHANGED retryVars
    /\ UNCHANGED regVars
    /\ UNCHANGED loopVars

\* the inner call has settled: retry returns its result, or catches its error
\* and either throws the exhaustion error or waits before the next attempt
StackedTargetSettles ==
    /\ pc = "target"
    /\ wpc = "done"
    /\ wpc' = "idle"
    /\ IF completion.k = "returned"
       THEN /\ outcome' = [k |-> "returned", value |-> completion.value]
            /\ pc' = "done"
            /\ UNCHANGED lastError
       ELSE /\ lastError' = completion.value
            /\ IF RetryIsLastAttempt(attempt, RetryAttempts(attempts))
               THEN /\ outcome' = [k |-> "threw",
                                   value |-> Some(RetryExhaustedMessage(
                                       RetryAttempts(attempts), completion.value[1]))]
                    /\ pc' = "done"
               ELSE /\ pc' = "sleep"
                    /\ UNCHANGED outcome
    /\ RetryStepEnds
    /\ UNCHANGED <<attempts, delay, failures, attempt, targetCalls, delays>>
    /\ UNCHANGED <<wrapper, target, caught, completion>>
    /\ UNCHANGED regVars
    /\ UNCHANGED loopVars

-----------------------------------------------------------------------------
(* environment *)

StepSkipped(title) == [e |-> "step.skip", title |-> title]

\* the skip test without config.skip: any flagged environment is skipped
EnvironmentSkips_IgnoresSkip(config, env) ==
    \/ env = "production" /\ TruthyBool(config.production)
    \/ env = "staging" /\ TruthyBool(config.staging)
    \/ env = "development" /\ TruthyBool(config.development)

\* config.skip && ((env === 'production' && config.production) || (env ===
\* 'staging' && config.staging) || (env === 'development' && config.development))
EnvironmentSkips(config, env) ==
    /\ TruthyBool(config.skip)
    /\ \/ env = "production" /\ TruthyBool(config.production)
       \/ env = "staging" /\ TruthyBool(config.staging)
       \/ env = "development" /\ TruthyBool(config.development)

\* `Test Step Skipped as the env is: ${env}`
EnvironmentSkippedTitle(env) == "Test Step Skipped as the env is: " \o env

\* `${env.toUpperCase()}: ${context.name as string}`
EnvironmentStepTitle(env) == toUpperCase(env) \o ": " \o MethodName

\* replacementMethod is called: it reads NODE_ENV, and either reports a
\* skipped step, whose body is not run, or opens the step and calls the method
EnvironmentCall ==
    /\ wpc = "start"
    /\ wrapper.kind = "environment"
    /\ LET env == EnvOf(nodeEnv)
       IN  IF EnvironmentSkips(wrapper.config, env)
           THEN /\ events' = events \o <<StepSkipped(EnvironmentSkippedTitle(env))>>
                /\ wpc' = "done"
                /\ completion' = Returned(Undefined)
                /\ UNCHANGED <<wrapper, target, caught>>
           ELSE Goto(<<StepBegin(EnvironmentStepTitle(env), [none |-> TRUE]), TargetCall>>,
                     "target", Undefined)
    /\ UNCHANGED regVars
    /\ UNCHANGED retryVars
    /\ UNCHANGED loopVars

\* return await target.call(this, ...args) settles, and the step with it
EnvironmentTargetSettles ==
    /\ wpc = "target"
    /\ wrapper.kind = "environment"
    /\ Settle(<<TargetSettled(target.throws)>>, TargetOutcome(target))
    /\ UNCHANGED regVars
    /\ UNCHANGED retryVars
    /\ UNCHANGED loopVars

EnvironmentNames == {Undefined, Some(""), Some("production"), Some("staging"),
                     Some("development"), Some("Qa-2")}
EnvironmentWrappers ==
    {[kind |-> "environment",
      config |-> [production |-> p, staging |-> s, development |-> d, skip |-> k]] :
        p \in OptBool, s \in OptBool, d \in OptBool, k \in OptBool}

-----------------------------------------------------------------------------
(* Specifications *)

RegIdle ==
    /\ nodeEnv = Undefined
    /\ pending = [decorator |-> "none", config |-> [title |-> Undefined],
                  method |-> MethodName, target |-> "function"]
    /\ loaded = "no"
    /\ registered = <<>>
    /\ invocations = <<>>
    /\ report = <<>>
    /\ factoryCalls = 0
    /\ skipEvals = <<>>

RetryIdle ==
    /\ attempts = Undefined
    /\ delay = Undefined
    /\ failures = 0
    /\ attempt = 0
    /\ pc = "idle"
    /\ targetCalls = 0
    /\ delays = <<>>
    /\ lastError = Undefined
    /\ outcome = [k |-> "pending", value |-> Undefined]

WrapIdle ==
    /\ wrapper = [kind |-> "none"]
    /\ target = [throws |-> FALSE, result |-> Undefined, duration |-> 0, heapUsed |-> 0,
                 clockLag |-> 0]
    /\ wpc = "idle"
    /\ caught = Undefined
    /\ events = <<>>
    /\ completion = Pending

LoopIdle ==
    /\ itemIndex = 0
    /\ results = <<>>

\* a class body with one decorated method is about to be evaluated
Init ==
    /\ \/ nodeEnv \in EnvOpts /\ pending \in SinglePendings
       \/ nodeEnv = Some("staging") /\ pending \in DataPendings
    /\ loaded = "no"
    /\ registered = <<>>
    /\ invocations = <<>>
    /\ report = <<>>
    /\ factoryCalls = 0
    /\ skipEvals = <<>>
    /\ RetryIdle
    /\ WrapIdle
    /\ LoopIdle

Next ==
    \/ DecorateTest
    \/ DecorateTestWithData
    \/ DecorateConditionalTest
    \/ DecorateTestDecorator
    \/ DecorateTestMethod
    \/ \E i \in 1..Len(registered) : \E f \in Fixtures : StartCase(i, f)
    \/ \E i \in 1..Len(registered) : FinishCase(i)
    \/ \E i \in 1..Len(registered) : ReportSkipped(i)

Spec == Init /\ [][Next]_vars

\* a method decorated with retry(attempts, delay) is about to be called
InitRetry ==
    /\ RegIdle
    /\ attempts \in {Undefined} \cup {Some(n) : n \in -1..MaxAttempts}
    /\ delay \in {Undefined, Some(250), Some(1000)}
    /\ failures \in -1..MaxFailures
    /\ attempt = 0
    /\ pc = "start"
    /\ targetCalls = 0
    /\ delays = <<>>
    /\ lastError = Undefined
    /\ outcome = [k |-> "pending", value |-> Undefined]
    /\ WrapIdle
    /\ LoopIdle

NextRetry ==
    \/ RetryCall
    \/ RetryLoop
    \/ RetryTargetSettles
    \/ RetryDelayElapsed

SpecRetry == InitRetry /\ [][NextRetry]_vars

\* how the method behaves when the replaced method calls it
LegacyTargets ==
    {[throws |-> FALSE, result |-> Some("v"), duration |-> 0, heapUsed |-> 0,
      clockLag |-> 0],
     [throws |-> TRUE, result |-> Undefined, duration |-> 0, heapUsed |-> 0,
      clockLag |-> 0]}

\* a decorator is about to be applied to a value that may be no function
InitTarget ==
    /\ nodeEnv = Undefined
    /\ pending \in TargetPendings
    /\ loaded = "no"
    /\ registered = <<>>
    /\ invocations = <<>>
    /\ report = <<>>
    /\ factoryCalls = 0
    /\ skipEvals = <<>>
    /\ RetryIdle
    /\ wrapper = [kind |-> "none"]
    /\ target \in LegacyTargets
    /\ wpc = "idle"
    /\ caught = Undefined
    /\ events = <<>>
    /\ completion = Pending
    /\ LoopIdle

NextTarget ==
    \/ DecorateTest
    \/ DecorateTestWithData
    \/ DecorateConditionalTest
    \/ DecorateTestDecorator
    \/ DecorateTestMethod
    \/ DecorateStep
    \/ DecorateLegacyStep
    \/ LegacyStepCall
    \/ LegacyStepTargetSettles
    \/ \E i \in 1..Len(registered) : \E f \in Fixtures : StartCase(i, f)
    \/ \E i \in 1..Len(registered) : FinishCase(i)
    \/ \E i \in 1..Len(registered) : \E f \in Fixtures : FailCase(i, f)
    \/ \E i \in 1..Len(registered) : ReportSkipped(i)

SpecTarget == InitTarget /\ [][NextTarget]_vars

\* a class body with one data-driven decoration is about to be evaluated, and
\* its cases will be executed by workers that interleave at the await points
InitInterleaved ==
    /\ nodeEnv = Undefined
    /\ pending \in InterleavedPendings
    /\ loaded = "no"
    /\ registered = <<>>
    /\ invocations = <<>>
    /\ report = <<>>
    /\ factoryCalls = 0
    /\ skipEvals = <<>>
    /\ RetryIdle
    /\ WrapIdle
    /\ LoopIdle

NextInterleaved ==
    \/ DecorateTest
    \/ DecorateTestWithData
    \/ \E i \in 1..Len(registered) : \E f \in Fixtures : StartCase(i, f)
    \/ \E i \in 1..Len(registered) : FinishCase(i)
    \/ \E i \in 1..Len(registered) : ReportSkipped(i)

SpecInterleaved == InitInterleaved /\ [][NextInterleaved]_vars

\* a method decorated with environment(config) is about to be called, NODE_ENV
\* having some value or none
InitEnvironment ==
    /\ nodeEnv \in EnvironmentNames
    /\ pending = [decorator |-> "none", config |-> [title |-> Undefined],
                  method |-> MethodName, target |-> "function"]
    /\ loaded = "no"
    /\ registered = <<>>
    /\ invocations = <<>>
    /\ report = <<>>
    /\ factoryCalls = 0
    /\ skipEvals = <<>>
    /\ RetryIdle
    /\ wrapper \in EnvironmentWrappers
    /\ target \in Targets
    /\ wpc = "start"
    /\ caught = Undefined
    /\ events = <<>>
    /\ completion = Pending
    /\ LoopIdle

NextEnvironment ==
    \/ EnvironmentCall
    \/ EnvironmentTargetSettles

SpecEnvironment == InitEnvironment /\ [][NextEnvironment]_vars

\* a class body with one decoration, which may stop half-way, is about to be
\* evaluated
InitPartial ==
    /\ nodeEnv = Undefined
    /\ pending \in PartialPendings
    /\ loaded = "no"
    /\ registered = <<>>
    /\ invocations = <<>>
    /\ report = <<>>
    /\ factoryCalls = 0
    /\ skipEvals = <<>>
    /\ RetryIdle
    /\ WrapIdle
    /\ LoopIdle

NextPartial ==
    \/ DecorateTest
    \/ DecorateTestWithData
    \/ DecorateConditionalTest
    \/ DecorateTestDecorator
    \/ DecorateTestMethod
    \/ \E i \in 1..Len(registered) : \E f \in Fixtures : StartCase(i, f)
    \/ \E i \in 1..Len(registered) : FinishCase(i)
    \/ \E i \in 1..Len(registered) : ReportSkipped(i)

SpecPartial == InitPartial /\ [][NextPartial]_vars

\* a method decorated with retry outside performance is about to be called
InitStacked ==
    /\ RegIdle
    /\ attempts \in {Undefined} \cup {Some(n) : n \in -1..MaxAttempts}
    /\ delay \in {Undefined, Some(250)}
    /\ failures = 0
    /\ attempt = 0
    /\ pc = "start"
    /\ targetCalls = 0
    /\ delays = <<>>
    /\ lastError = Undefined
    /\ outcome = [k |-> "pending", value |-> Undefined]
    /\ wrapper \in PerformanceWrappers
    /\ target \in Targets
    /\ wpc = "idle"
    /\ caught = Undefined
    /\ events = <<>>
    /\ completion = Pending
    /\ LoopIdle

NextStacked ==
    \/ RetryCall
    \/ RetryLoop
    \/ StackedTargetStarts
    \/ PerformanceCall
    \/ PerformanceTargetSettles
    \/ StackedTargetSettles
    \/ RetryDelayElapsed

\* timers fire and awaited promises settle: the event loop keeps running every
\* continuation that is ready
SpecStacked == InitStacked /\ [][NextStacked]_vars /\ WF_vars(NextStacked)

\* a method decorated with dataProvider is about to be called
InitProvider ==
    /\ RegIdle
    /\ RetryIdle
    /\ wrapper \in ProviderWrappers
    /\ target \in ProviderTargets
    /\ wpc = "start"
    /\ caught = Undefined
    /\ events = <<>>
    /\ completion = Pending
    /\ LoopIdle

NextProvider ==
    \/ ProviderCall
    \/ ProviderTargetSettles

SpecProvider == InitProvider /\ [][NextProvider]_vars

\* a method decorated with one of the wrappers is about to be called
InitWrap ==
    /\ RegIdle
    /\ RetryIdle
    /\ wrapper \in Wrappers
    /\ target \in Targets
    /\ wpc = "start"
    /\ caught = Undefined
    /\ events = <<>>
    /\ completion = Pending
    /\ LoopIdle

NextWrap ==
    \/ StepCall
    \/ StepTargetSettles
    \/ StepTimeoutExpires
    \/ PerformanceCall
    \/ PerformanceTargetSettles
    \/ ScreenshotCall
    \/ ScreenshotBeforeSettles
    \/ ScreenshotTargetSettles
    \/ ScreenshotSuccessSettles
    \/ ScreenshotErrorSettles
    \/ WaitForCall
    \/ WaitForElementSettles
    \/ WaitForUrlSettles
    \/ WaitForTargetSettles
    \/ LogCall
    \/ LogTargetSettles
    \/ DebugCall
    \/ DebugTargetSettles
    \/ FixtureStepCall
    \/ FixtureStepTargetSettles

SpecWrap == InitWrap /\ [][NextWrap]_vars


-----------------------------------------------------------------------------
(* Vocabulary of the properties *)

\* sub occurs in s
Contains(s, sub) ==
    \E i \in 1..(Len(s) - Len(sub) + 1) : SubSeq(s, i, i + Len(sub) - 1) = sub

\* the first n characters of s, all of s when it is shorter
Take(s, n) == SubSeq(s, 1, IF Len(s) < n THEN Len(s) ELSE n)

IsPrefix(p, s) == Len(p) <= Len(s) /\ SubSeq(s, 1, Len(p)) = p

\* the decoration under evaluation is data-driven
IsDataDriven ==
    \/ pending.decorator = "testWithData"
    \/ pending.decorator = "Test" /\ ~pending.config.isString
         /\ pending.config.data.k # "undefined"

IsSingle == pending.decorator # "none" /\ ~IsDataDriven

\* the elements of its data set
DataSet == pending.config.data.items

\* the component '(i/n)' of the title of the i-th of n cases
IndexTag(i, n) == "(" \o ToString(i) \o "/" \o ToString(n) \o ")"

\* the skip configuration of the decoration, as an optional predicate or boolean
SkipSetting ==
    IF pending.decorator = "Test"
    THEN (IF pending.config.isString THEN SkipUndefined ELSE pending.config.skip)
    ELSE IF pending.decorator \in {"conditionalTest", "testWithData"}
    THEN (IF pending.config.conditionalSkip = Undefined THEN SkipUndefined
          ELSE pending.config.conditionalSkip[1])
    ELSE SkipUndefined

\* the skip configuration evaluates to true on the (optional) element arg
SkipSettingTrue(arg) ==
    \/ SkipSetting.k = "boolean" /\ SkipSetting.b
    \/ SkipSetting.k = "function"
         /\ (IF arg = Undefined THEN "undefined" ELSE arg[1].k) \in SkipSetting.on

\* the element the i-th registered case was made for
ElementOf(i) == IF IsDataDriven THEN Some(DataSet[i]) ELSE Undefined

\* the positions in the event log of the events of kind e
EventsOf(e) == {i \in 1..Len(events) : events[i].e = e}

\* the only position of an event of kind e (0 when there is none)
PositionOf(e) == IF EventsOf(e) = {} THEN 0 ELSE CHOOSE i \in EventsOf(e) : TRUE

-----------------------------------------------------------------------------
(* Properties *)

\* C1: a data-driven Test / testWithData over a data set of length n (array or
\* factory) registers exactly n cases, active plus skipped, whose titles are
\* pairwise distinct, case i carrying the component '(i/n)' (i counted from 1).
C1_ExactlyNDistinctCases ==
    (loaded # "no" /\ IsDataDriven) =>
        /\ Len(registered) = Len(DataSet)
        /\ \A i \in 1..Len(registered) :
              Contains(registered[i].title, IndexTag(i, Len(DataSet)))
        /\ \A i, j \in 1..Len(registered) :
              i # j => registered[i].title # registered[j].title

\* C2: a case is registered as skipped iff the skip configuration (boolean or
\* predicate) evaluates to true at registration, and the runner never invokes
\* the decorated method for a skipped case.
C2_SkippedIffPredicateTrue ==
    \A i \in 1..Len(registered) :
        /\ registered[i].skipped <=> SkipSettingTrue(ElementOf(i))
        /\ registered[i].skipped =>
              /\ invocations[i] = <<>>
              /\ report[i].status \notin {"running", "ran"}
              /\ BodyCalls(registered[i], "f1") = <<>>

\* C2 witness: a predicate skipped one element's case, which the runner has
\* reported, and left another's active, which the runner has executed.
C2_Witness ==
    /\ SkipSetting.k = "function"
    /\ \E i, j \in 1..Len(registered) :
          /\ registered[i].skipped /\ report[i].status = "skipped"
          /\ ~registered[j].skipped /\ report[j].status = "ran"
          /\ invocations[j] # <<>>


\* C3: retry(3, 1000) on a method that fails on its first two invocations and
\* succeeds on the third settles with the method's result after exactly 3
\* invocations and exactly 2 delays of 1000 ms; the method is never invoked
\* more than 3 times on the way, and nothing runs after the success.
C3_FailTwiceThenSucceed ==
    (RetryAttempts(attempts) = 3 /\ RetryDelay(delay) = 1000 /\ failures = 2) =>
        /\ targetCalls <= 3
        /\ Len(delays) <= 2
        /\ outcome.k # "threw"
        /\ pc = "done" =>
              /\ outcome = [k |-> "returned", value |-> Some(TargetResult)]
              /\ targetCalls = 3
              /\ delays = <<1000, 1000>>
              /\ ~ENABLED NextRetry

\* C3 witness: such a call has settled with the result.
C3_Witness ==
    /\ attempts = Some(3) /\ delay = Some(1000) /\ failures = 2
    /\ pc = "done"
    /\ outcome.k = "returned"
    /\ targetCalls = 3

\* C4: for every attempt count N (N = 0, 1, 2, ...), retry(N) on a method that
\* always fails invokes it exactly N times and then throws a new error whose
\* message contains N and the message of the error of the N-th invocation.
C4_AlwaysFailingExhausts ==
    (failures = -1 /\ pc = "done" /\ RetryAttempts(attempts) >= 0) =>
        /\ targetCalls = RetryAttempts(attempts)
        /\ outcome.k = "threw"
        /\ Contains(outcome.value[1], ToString(RetryAttempts(attempts)))
        /\ Contains(outcome.value[1], ErrorMessage(RetryAttempts(attempts)))


\* the structured configuration {title: t}
TitleOnlyConfig(t) ==
    ObjectConfig(Some(t), Undefined, Undefined, Undefined, DataUndefined,
                 SkipUndefined, Undefined, Undefined)

\* C5: for every title string t, the empty one included, Test(t) registers the
\* same cases as Test({title: t}): the same titles, active/skipped status,
\* registration options and invocation arguments.
C5_StringEqualsTitleObject ==
    (loaded # "no" /\ pending.decorator = "Test" /\ pending.config.isString) =>
        registered = Test(TitleOnlyConfig(pending.config.str), pending.method,
                          nodeEnv).cases

\* the environment tag of a title, written out for each NODE_ENV of EnvOpts:
\* the name in capitals, DEVELOPMENT when NODE_ENV is unset (or empty)
EnvironmentTag ==
    CASE nodeEnv = Some("staging") -> "STAGING"
      [] nodeEnv = Some("Qa-2") -> "QA-2"
      [] nodeEnv \in {Undefined, Some("")} -> "DEVELOPMENT"

\* the title a Test configuration resolves to: the string itself, or the
\* configured title, the method's name standing in for an absent one
ResolvedTitle ==
    IF pending.config.isString THEN pending.config.str
    ELSE IF pending.config.title \in {Undefined, Some("")} THEN pending.method
    ELSE pending.config.title[1]

\* '[<id>] ' for a given test case id, nothing for an absent or empty one
ExpectedIdPart ==
    IF pending.config.isString \/ pending.config.testCaseId \in {Undefined, Some("")}
    THEN ""
    ELSE "[" \o pending.config.testCaseId[1] \o "] "

\* ' [<tags joined by ", ">]' for a non-empty tag list, nothing otherwise
ExpectedTagPart ==
    IF pending.config.isString \/ pending.config.tags \in {Undefined, Some(<<>>)}
    THEN ""
    ELSE " [" \o join(pending.config.tags[1], ", ") \o "]"

\* C6: a single (non-data-driven) Test registration never throws and registers
\* one case titled <ENV>: [<id>] <title> [<tags>], the id part and the tag part
\* present only for a non-empty id and a non-empty tag list.
C6_SingleTitleFormat ==
    (loaded # "no" /\ pending.decorator = "Test" /\ IsSingle) =>
        /\ loaded = "ok"
        /\ Len(registered) = 1
        /\ registered[1].title =
              EnvironmentTag \o ": " \o ExpectedIdPart \o ResolvedTitle \o ExpectedTagPart

\* C6 witness: a Test with a test case id and two tags was registered under
\* NODE_ENV=staging.
C6_Witness ==
    /\ loaded = "ok" /\ pending.decorator = "Test" /\ IsSingle
    /\ nodeEnv = Some("staging")
    /\ ~pending.config.isString
    /\ pending.config.testCaseId = Some("TC-1")
    /\ pending.config.tags = Some(<<"a", "b">>)
    /\ registered[1].title = "STAGING: [TC-1] X [a, b]"

\* C7: the cases of a data-driven registration are submitted in the data
\* set's order (the i-th case is the one of element i), and executing the
\* i-th active case with fixture bag f invokes the method exactly once, with
\* (f, d_i), whatever the other cases have done.
C7_OrderAndArguments ==
    (loaded # "no" /\ IsDataDriven) =>
        /\ Len(registered) <= Len(DataSet)
        /\ \A i \in 1..Len(registered) :
              /\ Contains(registered[i].title, IndexTag(i, Len(DataSet)))
              /\ Contains(registered[i].title,
                          Take(JSONstringify(DataSet[i])[1], TestTitleKeep))
              /\ invocations[i] =
                    IF report[i].status \in {"running", "ran"}
                    THEN <<[fixtures |-> report[i].fixtures, data |-> Some(DataSet[i])]>>
                    ELSE <<>>

\* C7 witness: the second of two different elements' cases was executed before
\* the first, with its own element.
C7_Witness ==
    /\ IsDataDriven /\ Len(registered) = 2
    /\ DataSet[1] # DataSet[2]
    /\ report[1].status = "none"
    /\ report[2].status = "ran"
    /\ invocations[2] = <<[fixtures |-> "f2", data |-> Some(DataSet[2])]>>


\* the cap on the JSON rendering embedded in a data-driven title
TitleCap == IF pending.decorator = "Test" THEN TestTitleCap ELSE WithDataTitleCap

Ellipsis == "..."

\* the full JSON rendering of element i
FullRendering(i) == JSONstringify(DataSet[i])[1]

\* the tag list at the end of the titles of the decoration
TitleTagPart ==
    IF pending.config.tags \in {Undefined, Some(<<>>)} THEN ""
    ELSE " [" \o join(pending.config.tags[1], ", ") \o "]"

\* the data substring of the title of case i: what stands between the
\* component '(i/n): ' and the tag list
EmbeddedData(i) ==
    LET t == registered[i].title
        m == IndexTag(i, Len(DataSet)) \o ": "
        k == CHOOSE k \in 1..(Len(t) - Len(m) + 1) : SubSeq(t, k, k + Len(m) - 1) = m
    IN  SubSeq(t, k + Len(m), Len(t) - Len(TitleTagPart))

\* C8 as stated: a rendering longer than the cap is embedded as a string of
\* length cap + length of the ellipsis that is a prefix of the rendering; a
\* rendering within the cap is embedded unchanged.
C8_TruncatedToCapPlusEllipsis ==
    (loaded # "no" /\ IsDataDriven) =>
        \A i \in 1..Len(registered) :
            LET rendering == FullRendering(i)
                embedded == EmbeddedData(i)
            IN  IF Len(rendering) > TitleCap
                THEN /\ Len(embedded) = TitleCap + Len(Ellipsis)
                     /\ IsPrefix(embedded, rendering)
                ELSE embedded = rendering

\* C8 amended: a rendering longer than the cap (40 in Test, 50 in
\* testWithData) is embedded as a string of length exactly the cap: the first
\* cap - 3 characters of the rendering followed by the ellipsis; a rendering
\* within the cap is embedded unchanged.
C8_TruncatedToCap ==
    (loaded # "no" /\ IsDataDriven) =>
        \A i \in 1..Len(registered) :
            LET rendering == FullRendering(i)
                embedded == EmbeddedData(i)
            IN  IF Len(rendering) > TitleCap
                THEN /\ Len(embedded) = TitleCap
                     /\ embedded = Take(rendering, TitleCap - Len(Ellipsis)) \o Ellipsis
                ELSE embedded = rendering

\* C8 witness: Test registered a case for an element whose rendering is one
\* character over the cap, next to one whose rendering is exactly at the cap.
C8_Witness ==
    /\ loaded = "ok" /\ IsDataDriven /\ pending.decorator = "Test"
    /\ \E i, j \in 1..Len(registered) :
          /\ Len(FullRendering(i)) = TestTitleCap + 1
          /\ Len(FullRendering(j)) = TestTitleCap

\* C9 as stated: every registration decorator yields at least one registered
\* case, and a data-driven one exactly |DataSet| cases, the empty data set
\* included.
C9_AtLeastOneCase ==
    loaded # "no" =>
        /\ Len(registered) >= 1
        /\ IsDataDriven => Len(registered) = Len(DataSet)

\* C9 amended: a decoration with a registration decorator that returns
\* yields exactly one registered case when it is not data-driven
\* (testDecorator, testMethod, conditionalTest, Test without data) and exactly
\* |DataSet| cases when it is data-driven, which is none, not at least one,
\* for the empty data set; a decoration that throws has not registered more
\* than that.
C9_OnePerDecorationOrElement ==
    loaded # "no" =>
        /\ IsSingle => Len(registered) <= 1
        /\ IsDataDriven => Len(registered) <= Len(DataSet)
        /\ loaded = "ok" =>
              /\ IsSingle => Len(registered) = 1
              /\ IsDataDriven => Len(registered) = Len(DataSet)

\* C9 witness: testWithData over an empty array returned having registered
\* no case.
C9_Witness ==
    /\ loaded = "ok" /\ pending.decorator = "testWithData"
    /\ pending.config.data = DataArray(<<>>)
    /\ registered = <<>>

\* C10: Test or testWithData over an empty data set (an empty array or a
\* factory returning one) registers no case, active or skipped, and does not
\* throw; it does not register a single case instead.
C10_EmptyDataSetRegistersNothing ==
    (loaded # "no" /\ IsDataDriven /\ DataSet = <<>>) =>
        /\ loaded = "ok"
        /\ registered = <<>>

\* C10 witness: Test with a factory returning an empty array was applied.
C10_Witness ==
    /\ loaded = "ok" /\ IsDataDriven /\ pending.decorator = "Test"
    /\ pending.config.data = DataFactory(<<>>)
    /\ factoryCalls = 1
    /\ registered = <<>>


\* C11: when the data set of Test or testWithData is a factory function, the
\* decoration invokes the factory exactly once, while it registers the cases
\* (also when an element makes the registration throw), and executing or
\* reporting the registered cases afterwards never invokes it again.
C11_FactoryInvokedOnceAtRegistration ==
    (IsDataDriven /\ pending.config.data.k = "function") =>
        factoryCalls = (IF loaded = "no" THEN 0 ELSE 1)

\* C11 witness: both cases registered from a factory's two elements have been
\* executed.
C11_Witness ==
    /\ IsDataDriven
    /\ pending.config.data.k = "function"
    /\ Len(registered) = 2
    /\ \A i \in 1..Len(registered) : report[i].status = "ran"
    /\ factoryCalls = 1

\* C12: in a data-driven registration with a per-element skip predicate, the
\* predicate is evaluated exactly once per data element, in order and with that
\* element as its argument, while the cases are registered and never when they
\* are executed; each element's case is skipped exactly when the predicate is
\* true of that element, whatever it returned for the others.
C12_PredicateOncePerElement ==
    (IsDataDriven /\ SkipSetting.k = "function") =>
        IF loaded = "no" THEN skipEvals = <<>>
        ELSE /\ skipEvals = [i \in 1..Len(DataSet) |-> Some(DataSet[i])]
             /\ Len(registered) = Len(DataSet)
             /\ \A i \in 1..Len(DataSet) :
                   registered[i].skipped <=> SkipSettingTrue(Some(DataSet[i]))

\* C13: an invocation of a step-wrapped method opens exactly one reporting
\* step and closes exactly one; the wrapped method is called exactly once,
\* after the step was opened, and the step is closed after the method settled,
\* with the method's result or error as the invocation's, whether the method
\* returns or throws; the step is never closed while the method is running.
C13_OneSpanAroundOneCall ==
    (wrapper.kind = "step" /\ wpc # "start") =>
        /\ Cardinality(EventsOf("step.begin")) = 1
        /\ Cardinality(EventsOf("target.call")) = 1
        /\ PositionOf("step.begin") < PositionOf("target.call")
        /\ events[PositionOf("step.begin")].title = StepName(wrapper.description)
        /\ IF wpc = "target"
           THEN EventsOf("target.settled") = {} /\ EventsOf("step.end") = {}
           ELSE /\ wpc = "done"
                /\ Cardinality(EventsOf("target.settled")) = 1
                /\ Cardinality(EventsOf("step.end")) = 1
                /\ PositionOf("target.call") < PositionOf("target.settled")
                /\ PositionOf("target.settled") < PositionOf("step.end")
                /\ events[PositionOf("step.end")].failed = target.throws
                /\ completion = TargetOutcome(target)

\* C13 witness: a step-wrapped method threw, and the step around it is closed.
C13_Witness ==
    /\ wrapper.kind = "step"
    /\ wpc = "done"
    /\ target.throws
    /\ completion = Threw(TargetError)
    /\ events[Len(events)] = StepEnd(completion)

\* C14: for the step, timeout, screenshot, waitFor and log wrappers used on
\* their own, once the wrapped method has settled the replacement method
\* settles the same way: it returns the value the method returned, or throws
\* the very error the method threw.
C14_ResultAndErrorPassThrough ==
    (/\ wrapper.kind \in {"step", "timeout", "screenshot", "waitFor", "log"}
     /\ wpc = "done"
     /\ EventsOf("target.settled") # {}) =>
        completion = TargetOutcome(target)

\* the replacement method failed with performance's own budget error
BudgetErrorRaised ==
    completion.k = "threw" /\ IsPrefix("Performance error: ", completion.value[1])

\* C15: the performance wrapper invokes the wrapped method exactly once; it
\* fails with its own budget error exactly when the method returned and the
\* measured duration is strictly greater than a configured, non-zero
\* errorThreshold; when the method throws, the method's error propagates and
\* there is no budget error; without an errorThreshold there never is one, and
\* the method's result is returned.
C15_BudgetErrorIffOverThreshold ==
    (wrapper.kind = "performance" /\ wpc = "done") =>
        LET threshold == wrapper.configOptions.errorThreshold
        IN  /\ Cardinality(EventsOf("target.call")) = 1
            /\ BudgetErrorRaised <=>
                  (/\ ~target.throws
                   /\ threshold # Undefined
                   /\ threshold[1] # 0
                   /\ target.duration > threshold[1])
            /\ target.throws => completion = Threw(TargetError)
            /\ (~target.throws /\ ~BudgetErrorRaised) =>
                  completion = Returned(target.result)
            /\ threshold = Undefined => ~BudgetErrorRaised

\* C15 witness: a method that returned one millisecond over the budget made
\* the wrapper fail with the budget error; the catch block, reading the clock
\* 46 ms later, wrote the failure line with its own duration.
C15_Witness ==
    /\ wrapper.kind = "performance"
    /\ wpc = "done"
    /\ ~target.throws
    /\ wrapper.configOptions.errorThreshold # Undefined
    /\ target.duration = wrapper.configOptions.errorThreshold[1] + 1
    /\ target.clockLag = 46
    /\ completion = Threw(PerformanceErrorMessage(target.duration,
                                                  wrapper.configOptions.errorThreshold[1]))
    /\ \E i \in 1..Len(events) :
          /\ events[i].e = "console"
          /\ events[i].text = "Performance: LoginPage.testLogin failed after 57ms"

\* the positions of the captures written to the file with this suffix
CapturesOf(suffix) ==
    {i \in EventsOf("page.screenshot") :
        events[i].path = BasePath(wrapper.configOptions) \o suffix}

\* C16: when screenshot is applied with onSuccess left unset (with no options
\* at all in particular), onSuccess counts as true: exactly one success
\* capture is taken after the wrapped method returned, and, onError being
\* unset too, no capture is taken when the method throws.
C16_SuccessCaptureByDefault ==
    (/\ wrapper.kind = "screenshot"
     /\ wrapper.configOptions.onSuccess = Undefined
     /\ wpc = "done"
     /\ EventsOf("target.settled") # {}) =>
        /\ ~target.throws =>
              /\ Cardinality(CapturesOf("-success.png")) = 1
              /\ \A i \in CapturesOf("-success.png") : i > PositionOf("target.settled")
        /\ (target.throws /\ wrapper.configOptions.onError = Undefined) =>
              CapturesOf("-error.png") = {}

\* C17: when the method wrapped by screenshot throws e, an error capture is
\* taken after the failure if onError is set and none is taken if it is not,
\* and in both cases the replacement method then throws e itself.
C17_ErrorCaptureThenRethrow ==
    (/\ wrapper.kind = "screenshot"
     /\ wpc = "done"
     /\ target.throws
     /\ EventsOf("target.settled") # {}) =>
        /\ IF TruthyBool(wrapper.configOptions.onError)
           THEN /\ Cardinality(CapturesOf("-error.png")) = 1
                /\ \A i \in CapturesOf("-error.png") : i > PositionOf("target.settled")
           ELSE CapturesOf("-error.png") = {}
        /\ completion = Threw(TargetError)

\* the wait of kind e was issued once and resolved before position p
WaitDoneBefore(e, p) ==
    /\ Cardinality(EventsOf(e)) = 1
    /\ PositionOf(e) + 1 < p
    /\ events[PositionOf(e) + 1] = PageSettled(TRUE)

\* the wait of kind e was issued once, rejected, and nothing followed it but
\* the end of the step, the replacement method failing with the wait's error
WaitFailedLast(e) ==
    /\ Cardinality(EventsOf(e)) = 1
    /\ PositionOf(e) + 2 = Len(events)
    /\ events[PositionOf(e) + 1] = PageSettled(FALSE)
    /\ wpc = "done"
    /\ completion = Threw(PageError(e))

\* C18: waitFor invokes the wrapped method, once, only after every configured
\* wait (the element wait, then the URL wait) was issued and resolved; a wait
\* that is not configured is not issued; if a wait rejects, it was attempted
\* exactly once, no later wait is issued, the wrapped method is never invoked
\* and the call fails with that wait's error.
C18_WaitsBeforeTheCall ==
    (wrapper.kind = "waitFor" /\ wpc # "start") =>
        LET hasElement == TruthyStr(wrapper.configOptions.element)
            hasUrl == TruthyStr(wrapper.configOptions.url)
            called == EventsOf("target.call") # {}
            rejected == {i \in EventsOf("page.settled") : ~events[i].ok}
        IN  /\ Cardinality(EventsOf("target.call")) <= 1
            /\ ~hasElement => EventsOf("locator.waitFor") = {}
            /\ ~hasUrl => EventsOf("page.waitForURL") = {}
            /\ called =>
                  /\ rejected = {}
                  /\ hasElement => WaitDoneBefore("locator.waitFor", PositionOf("target.call"))
                  /\ hasUrl => WaitDoneBefore("page.waitForURL", PositionOf("target.call"))
                  /\ (hasElement /\ hasUrl) =>
                        PositionOf("locator.waitFor") < PositionOf("page.waitForURL")
            /\ rejected # {} =>
                  /\ ~called
                  /\ Cardinality(rejected) = 1
                  /\ WaitFailedLast("locator.waitFor") \/ WaitFailedLast("page.waitForURL")
                  /\ WaitFailedLast("locator.waitFor") => EventsOf("page.waitForURL") = {}
                  /\ WaitFailedLast("page.waitForURL") =>
                        (hasElement => WaitDoneBefore("locator.waitFor",
                                                      PositionOf("page.waitForURL")))
            /\ (wpc = "done" /\ rejected = {}) =>
                  called /\ completion = TargetOutcome(target)

\* C18 witness: with both waits configured the element wait resolved and the
\* URL wait rejected, and the call failed without invoking the method.
C18_Witness ==
    /\ wrapper.kind = "waitFor"
    /\ wpc = "done"
    /\ EventsOf("locator.waitFor") # {}
    /\ WaitFailedLast("page.waitForURL")
    /\ EventsOf("target.call") = {}

\* the timeout waitFor declares for a wait configured without one
WaitForDefaultTimeout == 30000

\* C19: when waitFor is configured with an element or a URL but without a
\* state or a timeout, the wait issued to the page asks for the state
\* 'visible' and carries a timeout of 30000 ms.
C19_DefaultStateAndTimeout ==
    wrapper.kind = "waitFor" =>
        /\ \A i \in EventsOf("locator.waitFor") :
              /\ wrapper.configOptions.state = Undefined => events[i].state = "visible"
              /\ wrapper.configOptions.timeout = Undefined =>
                    events[i].timeout = Some(WaitForDefaultTimeout)
        /\ \A i \in EventsOf("page.waitForURL") :
              wrapper.configOptions.timeout = Undefined =>
                    events[i].timeout = Some(WaitForDefaultTimeout)

IsConsole(ev) == ev.e = "console"

\* the lines written to the console, in order
ConsoleLines == SelectSeq(events, IsConsole)

\* the options log declares for a decoration without options
LogDefaults ==
    [level |-> Some("info"), logArgs |-> Some(TRUE),
     logResult |-> Some(TRUE), logDuration |-> Some(TRUE)]

NoLogOptions ==
    [level |-> Undefined, logArgs |-> Undefined,
     logResult |-> Undefined, logDuration |-> Undefined]

\* C20: when log is applied with no options, logArgs, logResult and
\* logDuration count as true and the level is info: a call whose method
\* returns writes, in order, the entry line, the arguments line, the
\* completion line, the duration line and, for a defined result, the result
\* line, and returns the result; a call whose method throws writes, last, the
\* failure line with the elapsed duration, and throws the method's error.
C20_LogDefaultsAllOn ==
    (wrapper.kind = "log" /\ wrapper.configOptions = NoLogOptions /\ wpc = "done") =>
        IF target.throws
        THEN /\ ConsoleLines # <<>>
             /\ ConsoleLines[Len(ConsoleLines)] =
                   Console("error", LogFailed(target.duration), Some(TargetError))
             /\ completion = Threw(TargetError)
        ELSE /\ ConsoleLines =
                   LogEntryLines(LogDefaults)
                   \o LogSuccessLines(LogDefaults, target.result, target.duration)
             /\ completion = Returned(target.result)

\* the option `name` of the registration options handed to the runner
OptionOf(options, name) ==
    IF name \in DOMAIN options THEN options[name] ELSE Undefined

\* C21: for every Test configuration object, every active case registered from
\* it is handed to the runner with the configured timeout and the configured
\* retries in its registration options.
C21_TimeoutAndRetriesReachRunner ==
    (pending.decorator = "Test" /\ ~pending.config.isString) =>
        \A i \in 1..Len(registered) :
            ~registered[i].skipped =>
                /\ OptionOf(registered[i].options, "timeout") = pending.config.timeout
                /\ OptionOf(registered[i].options, "retries") = pending.config.retries

\* C22: a registration or step decorator applied to a value that is not a
\* function throws at decoration time: no case is registered for it and the
\* runner executes nothing.
C22_NonFunctionRejectedAtDecoration ==
    (pending.target # "function" /\ loaded # "no") =>
        /\ loaded = "threw"
        /\ registered = <<>>
        /\ \A i \in 1..Len(report) : report[i] = NotRun

\* the data set has an element without a JSON rendering
HasUnrenderable ==
    \E i \in 1..Len(DataSet) : JSONstringify(DataSet[i]) = Undefined

\* C23: data-driven registration by Test or testWithData over a data set with
\* elements that have no JSON rendering (undefined, a function) does not
\* throw: it returns, and all n cases are registered.
C23_UnrenderableElementsRegistered ==
    (IsDataDriven /\ HasUnrenderable /\ loaded # "no") =>
        /\ loaded = "ok"
        /\ Len(registered) = Len(DataSet)

\* the events of one call of a method wrapped by dataProvider over `items`
\* whose first m items were handed to the method, the last of these
\* invocations throwing if `failed`: the enclosing step, and inside it, one
\* after the other, a step per item around the invocation for that item
ProviderTrace(data, m, failed) ==
    LET base == Len(DataResolved(data))
        at(j, k) == events[base + 1 + 4 * (j - 1) + k]
    IN  /\ Len(events) = base + 2 + 4 * m
        /\ events[base + 1].e = "step.begin"
        /\ \A j \in 1..m :
              /\ at(j, 1) = StepBegin(DatasetTitle(j, data.items[j]), [none |-> TRUE])
              /\ at(j, 2).e = "target.call"
              /\ at(j, 2).args[1] = data.items[j]
              /\ at(j, 3) = TargetSettled(failed /\ j = m)
              /\ at(j, 4).e = "step.end"
              /\ at(j, 4).failed = (failed /\ j = m)
        /\ events[Len(events)].e = "step.end"
        /\ events[Len(events)].failed = failed

\* C24 as stated: one call of a method wrapped by dataProvider over n items
\* invokes the method exactly n times, once per item in order with the item as
\* first argument, each invocation in its own step inside one enclosing step,
\* one after the other.
C24_ExactlyNInvocations ==
    (wrapper.kind = "dataProvider" /\ wpc = "done") =>
        /\ Cardinality(EventsOf("target.call")) = Len(wrapper.data.items)
        /\ ProviderTrace(wrapper.data, Len(wrapper.data.items), completion.k = "threw")

\* C24 amended: the method is invoked once per item in order, with the item as
\* first argument, each invocation in its own step inside one enclosing step,
\* one after the other, up to and including the first invocation that throws:
\* n invocations when none throws, k when the k-th throws, in which case both
\* open steps are closed as failed and the call fails with the method's error.
C24_OncePerItemUntilFirstThrow ==
    (wrapper.kind = "dataProvider" /\ wpc = "done") =>
        LET n == Len(wrapper.data.items)
            throws == target.throwsAt \in 1..n
            m == IF throws THEN target.throwsAt ELSE n
        IN  /\ Cardinality(EventsOf("target.call")) = m
            /\ ProviderTrace(wrapper.data, m, throws)
            /\ throws <=> completion = Threw(TargetError)

\* C24 witness: over two items the first invocation threw, and the call failed
\* after that one invocation.
C24_Witness ==
    /\ wrapper.kind = "dataProvider"
    /\ wpc = "done"
    /\ Len(wrapper.data.items) = 2
    /\ target.throwsAt = 1
    /\ Cardinality(EventsOf("target.call")) = 1
    /\ completion = Threw(TargetError)

\* C25: a method wrapped by dataProvider does not return results: whatever the
\* data set and whatever the method returns for the items, a call that does
\* not fail resolves to undefined.
C25_ProviderResolvesToUndefined ==
    (wrapper.kind = "dataProvider" /\ wpc = "done" /\ completion.k = "returned") =>
        completion = Returned(Undefined)

\* C26: the registered cases share no mutable state: however the executions of
\* the cases interleave at their await points, each case's invocations of the
\* method, with their arguments, and its outcome are those of the case
\* executed alone, namely one invocation with the case's own fixture bag and
\* its own element, and none for a case not started or skipped.
C26_CasesIndependentUnderInterleaving ==
    loaded = "ok" =>
        \A i \in 1..Len(registered) :
            /\ report[i].status \in {"running", "ran"} =>
                  /\ ~registered[i].skipped
                  /\ invocations[i] = <<[fixtures |-> report[i].fixtures,
                                         data |-> ElementOf(i)]>>
            /\ report[i].status \in {"none", "skipped"} => invocations[i] = <<>>
            /\ report[i].status = "skipped" => registered[i].skipped

\* C26 witness: the bodies of two cases with different elements are running
\* at the same time, with different fixture bags.
C26_Witness ==
    /\ loaded = "ok"
    /\ \E i, j \in 1..Len(registered) :
          /\ i # j
          /\ report[i].status = "running" /\ report[j].status = "running"
          /\ report[i].fixtures # report[j].fixtures
          /\ ElementOf(i) # ElementOf(j)
          /\ invocations[i] # <<>> /\ invocations[j] # <<>>

\* C27: retry configured with an attempt count less than 1 never invokes the
\* wrapped method, waits for no delay and completes without an error,
\* resolving to undefined, also for a method that would always fail.
C27_NoAttemptsResolvesUndefined ==
    (attempts # Undefined /\ attempts[1] < 1) =>
        /\ targetCalls = 0
        /\ delays = <<>>
        /\ lastError = Undefined
        /\ outcome.k # "threw"
        /\ pc = "done" => outcome = [k |-> "returned", value |-> Undefined]
        /\ pc \in {"start", "loop", "done"}

\* C27 witness: retry(0) around a method that always fails has completed,
\* resolving to undefined.
C27_Witness ==
    /\ attempts = Some(0)
    /\ failures = -1
    /\ pc = "done"
    /\ targetCalls = 0
    /\ outcome = [k |-> "returned", value |-> Undefined]

\* the stacked call's case: retry(N) with N >= 1 outside performance with a
\* truthy errorThreshold, around an operation that returns, every time, after
\* more than the threshold
SlowButSucceeding ==
    /\ wrapper.kind = "performance"
    /\ RetryAttempts(attempts) >= 1
    /\ ~target.throws
    /\ Exceeds(wrapper.configOptions.errorThreshold, target.duration)

BudgetError ==
    PerformanceErrorMessage(target.duration, wrapper.configOptions.errorThreshold[1])

StackedExhausted ==
    /\ pc = "done"
    /\ wrapper.configOptions.errorThreshold # Undefined
    /\ Cardinality(EventsOf("target.call")) = RetryAttempts(attempts)
    /\ Len(delays) = RetryAttempts(attempts) - 1
    /\ outcome = [k |-> "threw",
                  value |-> Some(RetryExhaustedMessage(RetryAttempts(attempts),
                                                       BudgetError))]
    /\ outcome.value # Some(BudgetError)

\* C28: with retry(N), N >= 1, stacked outside performance with an
\* errorThreshold, an operation that returns but exceeds the threshold on every
\* call is never invoked more than N times, the call ends only after N
\* invocations, and it does end: the operation has then run N times and the
\* caller holds retry's exhaustion error, which quotes the budget error's
\* message and is not the budget error itself.
C28_BudgetErrorIsRetried ==
    /\ [](SlowButSucceeding =>
            /\ Cardinality(EventsOf("target.call")) <= RetryAttempts(attempts)
            /\ pc = "done" => StackedExhausted)
    /\ (SlowButSucceeding ~> StackedExhausted)

C28_Witness ==
    /\ SlowButSucceeding
    /\ StackedExhausted
    /\ RetryAttempts(attempts) >= 2
    /\ wrapper.configOptions.errorThreshold = Some(10)
    /\ target.duration = 11
    /\ target.clockLag = 46

\* registering the case for the i-th element throws: the element has no JSON
\* rendering, or the configured skip function throws for it
ElementThrows(i) ==
    \/ JSONstringify(DataSet[i]) = Undefined
    \/ SkipSetting.k = "function" /\ DataSet[i].k \in SkipSetting.throwsOn

\* the position of the first such element, 0 when there is none
FirstThrowing ==
    IF \E i \in 1..Len(DataSet) : ElementThrows(i)
    THEN CHOOSE i \in 1..Len(DataSet) :
            ElementThrows(i) /\ \A j \in 1..(i - 1) : ~ElementThrows(j)
    ELSE 0

\* C29: when title construction or the skip predicate throws at an element of
\* a data-driven registration, the decorator throws, the cases of the elements
\* before it are registered, in order, each for its own element, and no case
\* is registered for that element or any later one.
C29_RegistrationStopsAtThrowingElement ==
    (IsDataDriven /\ loaded # "no" /\ FirstThrowing # 0) =>
        /\ loaded = "threw"
        /\ Len(registered) = FirstThrowing - 1
        /\ \A i \in 1..Len(registered) :
              /\ Contains(registered[i].title, IndexTag(i, Len(DataSet)))
              /\ registered[i].skipped = SkipSettingTrue(Some(DataSet[i]))
              /\ ~registered[i].skipped => registered[i].data = Some(DataSet[i])
        /\ \A j \in FirstThrowing..Len(DataSet) : \A i \in 1..Len(registered) :
              ~Contains(registered[i].title, IndexTag(j, Len(DataSet)))

C29_Witness ==
    /\ IsDataDriven
    /\ loaded = "threw"
    /\ Len(DataSet) = 2
    /\ FirstThrowing = 2
    /\ JSONstringify(DataSet[2]) # Undefined
    /\ Len(registered) = 1
    /\ registered[1].data = Some(DataSet[1])

\* the environment the process runs in when the method is called
CurrentEnvironment ==
    IF nodeEnv = Undefined \/ nodeEnv = Some("") THEN "development" ELSE nodeEnv[1]

\* config.skip is set, and so is the flag of the current environment
SkipConfigured ==
    /\ wrapper.config.skip = Some(TRUE)
    /\ CASE CurrentEnvironment = "production" -> wrapper.config.production = Some(TRUE)
         [] CurrentEnvironment = "staging" -> wrapper.config.staging = Some(TRUE)
         [] CurrentEnvironment = "development" -> wrapper.config.development = Some(TRUE)
         [] OTHER -> FALSE

IsSkippedStep(ev) == ev.e = "step.skip"

\* the current environment in capitals, written out for each name of
\* EnvironmentNames
CapitalEnvironment ==
    CASE CurrentEnvironment = "production" -> "PRODUCTION"
      [] CurrentEnvironment = "staging" -> "STAGING"
      [] CurrentEnvironment = "development" -> "DEVELOPMENT"
      [] CurrentEnvironment = "Qa-2" -> "QA-2"

\* C30: a call of a method wrapped by environment(config) is skipped exactly
\* when config.skip and the flag of the environment current at the call
\* ('development' without NODE_ENV) are both set; a skipped call reports one
\* skipped step and never invokes the method; any other call invokes it
\* exactly once, inside a step titled with the upper-cased environment and the
\* method name, and settles as the method does.
C30_SkippedIffFlaggedEnvironment ==
    (wrapper.kind = "environment" /\ wpc # "start") =>
        /\ (\E i \in 1..Len(events) : IsSkippedStep(events[i])) <=> SkipConfigured
        /\ SkipConfigured =>
              /\ events = <<StepSkipped("Test Step Skipped as the env is: "
                                            \o CurrentEnvironment)>>
              /\ EventsOf("target.call") = {}
              /\ completion = Returned(Undefined)
        /\ ~SkipConfigured =>
              /\ events[1].e = "step.begin"
              /\ events[1].title = CapitalEnvironment \o ": testLogin"
              /\ events[2] = TargetCall
              /\ EventsOf("target.call") = {2}
              /\ wpc = "done" =>
                    /\ events[Len(events)].e = "step.end"
                    /\ completion = TargetOutcome(target)

C30_Witness ==
    /\ wrapper.kind = "environment"
    /\ wpc = "done"
    /\ nodeEnv = Undefined
    /\ wrapper.config.skip = Some(TRUE)
    /\ wrapper.config.development = Some(TRUE)
    /\ wrapper.config.production = Some(FALSE)
    /\ Len(events) = 1
    /\ IsSkippedStep(events[1])

====
